---------------------------- MODULE Spec2Model ----------------------------
(***************************************************************************)
(* A model of the microgrid EMS backend (src/backend/app): the safety      *)
(* supervisor, the action mapper, the safety-supervised advisory endpoint  *)
(* with its decision audit log, telemetry ingestion with its dedup cache,  *)
(* and the event bus (queue, dispatcher, subscriber registry).             *)
(*                                                                         *)
(* Numbers.  The code computes in floats.  The model computes in integers  *)
(* of a fixed denominator: a raw policy component is k/Den, a power is     *)
(* held in units of 1/Den kW, the curtailment fraction in units of         *)
(* 1/(2*Den), a state of charge in percent (so soc_fraction is held in     *)
(* hundredths).  Every product, sum and comparison the code makes on such  *)
(* values is exact in these units.                                         *)
(***************************************************************************)
EXTENDS Integers, Sequences, FiniteSets, TLC

\* ------------------------------------------------------------------ bounds

\* Raw policy components and semantic inputs are multiples of 1/Den.
Den == 2
\* Semantic inputs range over -MaxMult..MaxMult half-ratings.
MaxMult == 3
\* States of charge within SocDelta percent of each SoC threshold are drawn.
SocDelta == 1
\* Raw policy components range over -MaxRaw/Den .. MaxRaw/Den.
MaxRaw == 3
\* The advisory endpoint is called while the decision log holds fewer rows.
MaxLog == 2
\* The capacity of the dedup cache in the model; the code's _DEDUP_MAX is
\* DEDUP_MAX_CODE.  The trim arithmetic is that of the code at this capacity.
DEDUP_MAX == 10
\* Messages handled beyond the cache capacity (ingestion alone).
MaxExtra == 2
\* Storage failures and invalid payloads per behaviour (ingestion alone).
MaxFail == 1
\* Replayed messages discarded per behaviour (ingestion alone).
MaxDup == 2
\* Only the first MaxUnstamped messages may come without a timestamp.
MaxUnstamped == 1
\* Messages handled with the event bus running.
MaxBusMsgs == 2
\* Websocket connections over a behaviour.
MaxSockets == 2
\* Connect attempts that fail (the ingestor alone).
MaxAttempts == 7
\* Broker messages delivered (the ingestor alone).
MaxDeliveries == 3
\* Calls of GET /advisory/rl/safe.
MaxCalls == 2
\* Rows of rl_decision_logs when the history is queried.
MaxHistory == 4
\* The greatest limit a history query is made with.
MaxLimit == 3
\* How far from a rule's threshold the values given to rules.evaluate lie.
MaxRuleDelta == 1
\* Calls of POST /telemetry.
MaxPosts == 1
\* Decisions appended while a client follows the cursor.
MaxAppends == 2
\* The greatest magnitude of a value in the records a delta is computed of.
MaxDeltaVal == 1
\* Worker threads serving POST /alerts/{id}/ack at a time.
MaxAckers == 2
\* Acknowledge requests in all.
MaxAcks == 3

\* ------------------------------------------------------------ safety.py

BATTERY_MAX_CHARGE_TOTAL == 800
BATTERY_MAX_DISCHARGE_TOTAL == 800
GRID_MAX_IMPORT == 5000
EV_MAX_CHARGE == 450
\* The SoC envelope of apply_safety, in hundredths (0.20 and 0.90).
SOC_MIN_FRACTION == 20
SOC_MAX_FRACTION == 90

\* x kW in the model's units of 1/Den kW.
KW(x) == x * Den
\* The curtailment fraction 1.0 in the model's units of 1/(2*Den).
CurtOne == 2 * Den

RequiredKeys == {"battery_kw", "grid_kw", "ev_kw", "curtailment"}

\* The state of apply_safety between two rules: the dict `safe`, the list
\* `flags`, and whether a subscript safe[key] has raised KeyError.
SafetyStart(semantic) ==
    [raised |-> FALSE, safe |-> semantic, flags |-> <<>>]

\* `if <pre> and safe[key] <cmp> bound: safe[key] = val; flags.append(flag)`,
\* cmp being "lt" (<) or "gt" (>).  `and` short-circuits: safe[key] is read
\* only when pre holds, and reading a missing key raises KeyError, which
\* nothing in apply_safety catches.
SafetyRule(st, pre, key, cmp, bound, val, flag) ==
    IF st.raised \/ ~pre THEN st
    ELSE IF key \notin DOMAIN st.safe
         THEN [st EXCEPT !.raised = TRUE]
         ELSE IF (cmp = "lt" /\ st.safe[key] < bound) \/ (cmp = "gt" /\ st.safe[key] > bound)
              THEN [st EXCEPT !.safe = [st.safe EXCEPT ![key] = val],
                              !.flags = Append(st.flags, flag)]
              ELSE st

\* A supervisor that derates a low-SoC discharge by half instead of blocking it.
SocRulesDerating(st, soc_fraction) ==
    LET a == IF st.raised \/ ~(soc_fraction < SOC_MIN_FRACTION) THEN st
             ELSE IF "battery_kw" \notin DOMAIN st.safe
                  THEN [st EXCEPT !.raised = TRUE]
                  ELSE IF st.safe["battery_kw"] < 0
                       THEN [st EXCEPT
                               !.safe = [st.safe EXCEPT !["battery_kw"] = -((-@) \div 2)],
                               !.flags = Append(st.flags, "BLOCK_DISCHARGE_LOW_SOC")]
                       ELSE st
    IN  SafetyRule(a, soc_fraction > SOC_MAX_FRACTION, "battery_kw",
                   "gt", 0, 0, "BLOCK_CHARGE_HIGH_SOC")

SocRules(st, soc_fraction) ==
    LET a == SafetyRule(st, soc_fraction < SOC_MIN_FRACTION, "battery_kw",
                        "lt", 0, 0, "BLOCK_DISCHARGE_LOW_SOC")
    IN  SafetyRule(a, soc_fraction > SOC_MAX_FRACTION, "battery_kw",
                   "gt", 0, 0, "BLOCK_CHARGE_HIGH_SOC")

BatteryClamp(st) ==
    LET a == SafetyRule(st, TRUE, "battery_kw",
                        "gt", KW(BATTERY_MAX_CHARGE_TOTAL),
                        KW(BATTERY_MAX_CHARGE_TOTAL), "CLAMP_BATTERY_CHARGE")
    IN  SafetyRule(a, TRUE, "battery_kw",
                   "lt", -KW(BATTERY_MAX_DISCHARGE_TOTAL),
                   -KW(BATTERY_MAX_DISCHARGE_TOTAL), "CLAMP_BATTERY_DISCHARGE")

\* A supervisor that blocks export but forgets the import clamp.
GridRulesNoImportClamp(st) ==
    SafetyRule(st, TRUE, "grid_kw", "lt", 0, 0, "NO_EXPORT_SUPPORTED")

GridRules(st) ==
    LET a == SafetyRule(st, TRUE, "grid_kw",
                        "lt", 0, 0, "NO_EXPORT_SUPPORTED")
    IN  SafetyRule(a, TRUE, "grid_kw",
                   "gt", KW(GRID_MAX_IMPORT),
                   KW(GRID_MAX_IMPORT), "CLAMP_GRID_IMPORT")

EvRules(st) ==
    LET a == SafetyRule(st, TRUE, "ev_kw",
                        "lt", 0, 0, "NEG_EV_POWER")
    IN  SafetyRule(a, TRUE, "ev_kw",
                   "gt", KW(EV_MAX_CHARGE),
                   KW(EV_MAX_CHARGE), "CLAMP_EV_CHARGE")

CurtailmentRules(st) ==
    LET a == SafetyRule(st, TRUE, "curtailment",
                        "lt", 0, 0, "CURTAILMENT_NEG")
    IN  SafetyRule(a, TRUE, "curtailment",
                   "gt", CurtOne, CurtOne, "CURTAILMENT_GT1")

\* A supervisor that applies the EV rules before the grid rules.
apply_safety_reordered(semantic, soc_fraction) ==
    CurtailmentRules(GridRules(EvRules(BatteryClamp(
        SocRules(SafetyStart(semantic), soc_fraction)))))

\* apply_safety(semantic, soc_fraction): [raised, safe, flags]; when raised,
\* the call returned nothing and safe and flags are what was built so far.
apply_safety(semantic, soc_fraction) ==
    CurtailmentRules(EvRules(GridRules(BatteryClamp(
        SocRules(SafetyStart(semantic), soc_fraction)))))

\* ------------------------------------------------------ action_mapping.py

BAT1_MAX_CHARGE == 600
BAT1_MAX_DISCHARGE == 600
BAT2_MAX_CHARGE == 200
BAT2_MAX_DISCHARGE == 200
MAP_GRID_MAX_IMPORT == 5000
GRID_MAX_EXPORT == 3000
EV_MAX_AGG_CHARGE == 450

Max(a, b) == IF a >= b THEN a ELSE b
Min(a, b) == IF a <= b THEN a ELSE b

\* raw is k with the component being k/Den; the result is in 1/Den kW.
battery_power_component(raw, max_charge, max_discharge) ==
    IF raw >= 0 THEN raw * max_charge ELSE raw * max_discharge

\* `while len(v) < 5: v.append(0.0)`
PadTo5Ones(v) == v \o [i \in 1 .. (5 - Len(v)) |-> Den]

PadTo5(v) == v \o [i \in 1 .. (5 - Len(v)) |-> 0]

\* map_action(raw_vector); v[i] of the code is v[i + 1] here.
map_action_pad_empty(raw_vector) ==
    LET v == PadTo5(raw_vector)
        b1 == battery_power_component(v[1], BAT1_MAX_CHARGE, BAT1_MAX_DISCHARGE)
        b2 == battery_power_component(v[2], BAT2_MAX_CHARGE, BAT2_MAX_DISCHARGE)
        grid_kw == IF v[3] >= 0
                   THEN v[3] * MAP_GRID_MAX_IMPORT
                   ELSE (-v[3]) * GRID_MAX_EXPORT * (-1)
    IN  [battery_kw |-> b1 + b2, battery1_kw |-> b1, battery2_kw |-> b2,
         grid_kw |-> grid_kw,
         ev_kw |-> Max(0, Min(Den, v[4])) * EV_MAX_AGG_CHARGE,
         curtailment |-> Max(0, Min(CurtOne, v[5] + Den))]

map_action_ev_unbounded(raw_vector) ==
    IF Len(raw_vector) = 0
    THEN [battery_kw |-> 0, battery1_kw |-> 0, battery2_kw |-> 0,
          grid_kw |-> 0, ev_kw |-> 0, curtailment |-> 0]
    ELSE LET v == PadTo5(raw_vector)
             b1 == battery_power_component(v[1], BAT1_MAX_CHARGE, BAT1_MAX_DISCHARGE)
             b2 == battery_power_component(v[2], BAT2_MAX_CHARGE, BAT2_MAX_DISCHARGE)
             grid_kw == IF v[3] >= 0
                        THEN v[3] * MAP_GRID_MAX_IMPORT
                        ELSE (-v[3]) * GRID_MAX_EXPORT * (-1)
         IN  [battery_kw |-> b1 + b2, battery1_kw |-> b1, battery2_kw |-> b2,
              grid_kw |-> grid_kw, ev_kw |-> Max(0, v[4]) * EV_MAX_AGG_CHARGE,
              curtailment |-> Max(0, Min(CurtOne, v[5] + Den))]

map_action(raw_vector) ==
    IF Len(raw_vector) = 0
    THEN [battery_kw |-> 0, battery1_kw |-> 0, battery2_kw |-> 0,
          grid_kw |-> 0, ev_kw |-> 0, curtailment |-> 0]
    ELSE LET v == PadTo5(raw_vector)
             b1 == battery_power_component(v[1], BAT1_MAX_CHARGE, BAT1_MAX_DISCHARGE)
             b2 == battery_power_component(v[2], BAT2_MAX_CHARGE, BAT2_MAX_DISCHARGE)
             grid_norm == v[3]
             grid_kw == IF grid_norm >= 0
                        THEN grid_norm * MAP_GRID_MAX_IMPORT
                        ELSE (-grid_norm) * GRID_MAX_EXPORT * (-1)
             \* max(0.0, min(1.0, v[3])), 1.0 being Den
             ev_norm == Max(0, Min(Den, v[4]))
             ev_kw == ev_norm * EV_MAX_AGG_CHARGE
             \* (v[4] + 1) / 2.0, held in units of 1/(2*Den)
             curtailment == v[5] + Den
             total_battery == b1 + b2
         IN  [battery_kw |-> total_battery, battery1_kw |-> b1, battery2_kw |-> b2,
              grid_kw |-> grid_kw, ev_kw |-> ev_kw,
              curtailment |-> Max(0, Min(CurtOne, curtailment))]

\* ------------------------------------------------------------------ state

VARIABLES
    semantic,       \* supervisor harness: the semantic action given
    soc_fraction,   \* supervisor harness: the SoC fraction given (hundredths)
    first,          \* supervisor harness: apply_safety(semantic, soc_fraction)
    second,         \* supervisor harness: apply_safety(first.safe, soc_fraction)
    telemetry,      \* table telemetry: the rows in insertion order
    alerts,         \* table alerts: the rows in id order
    rl_decision_logs, \* table rl_decision_logs: the rows in id order
    soc_used,       \* history: the soc_fraction of each logged decision
    advisory_out,   \* the last response of GET /advisory/rl/safe
    advisory_calls, \* history: the number of calls of GET /advisory/rl/safe
    advisory_last,  \* history: what the last call met (policy outcome, audit write)
    dedup_cache,    \* main._dedup_cache: its keys in insertion order
    INGEST_OK,      \* counter telemetry_ingest_ok_total
    INGEST_FAIL,    \* counter telemetry_ingest_fail_total
    DEDUP_DISCARDED, \* counter telemetry_dedup_discarded_total
    handled,        \* history: the number of handle_ingested calls so far
    last,           \* history: the key and the outcome of the last call
    carried,        \* history: the keys the earlier messages carried
    persisted,      \* history: the keys whose telemetry row was stored
    loop_ready,     \* the loop's ready callbacks: put_nowait(event), in order
    event_queue,    \* app.state.event_queue
    scheduled,      \* history: every event handed to the loop, in order
    taken,          \* history: every event the dispatcher took, in order
    active,         \* manager.active
    ws_state,       \* each websocket: "new", "open", "closing" or "closed"
    dispatcher,     \* the dispatcher task: its position and broadcast locals
    received,       \* history: the events each websocket was sent
    bcast,          \* history: the last broadcast (who was there, who failed)
    messages_ok,    \* MQTTIngestor.messages_ok
    messages_failed, \* MQTTIngestor.messages_failed
    last_message_ts, \* MQTTIngestor.last_message_ts (the clock: arrival number)
    delivered,      \* history: the number of _on_message calls so far
    last_msg,       \* history: the message of the last _on_message call
    loop_started,   \* MQTTIngestor._loop_started
    stopping,       \* MQTTIngestor._stopping
    client,         \* the broker client: "disconnected" or "connected"
    network_loop,   \* the client's network thread runs (loop_start / loop_stop)
    connect_loop,   \* the mqtt-connect thread: its position and its backoff
    attempts,       \* history: the number of client.connect calls so far
    wait,           \* history: the last sleep of the connect loop
    stop_returned,  \* history: a call of stop() has returned
    shutdown,       \* the shutdown handler: its position
    risk_task,      \* app.state.risk_task: "running" or "cancelled"
    history_out,    \* the last response of GET /advisory/rl/history
    raw_in,         \* mapper harness: the raw vector given
    mapped,         \* mapper harness: map_action(raw_in)
    rule_payload,   \* rules harness: the payload given
    rule_alerts,     \* rules harness: list(rules.evaluate(rule_payload))
    heap,           \* frame harness: the dict objects, by name
    ret,             \* frame harness: what apply_safety returned (references)
    delta_row,      \* delta harness: the semantic_raw and semantic_safe of a logged row
    delta_out,       \* delta harness: the semantic_delta rl_history computes for it
    ack_req,        \* the requests POST /alerts/{id}/ack in progress: position and locals
    ack_clock,      \* the clock datetime.utcnow() reads
    ack_count,       \* history: the number of acknowledge requests so far
    pager            \* a history client following the cursor, and what it received

safetyVars == <<semantic, soc_fraction, first, second>>
dbVars == <<telemetry, alerts>>
advisoryVars == <<rl_decision_logs, soc_used, advisory_out, advisory_calls, advisory_last>>
ingestVars == <<dedup_cache, INGEST_OK, INGEST_FAIL, DEDUP_DISCARDED,
                handled, last, carried, persisted>>
queueVars == <<loop_ready, event_queue, scheduled, taken>>
busVars == <<active, ws_state, dispatcher, received, bcast>>
mqttCountVars == <<messages_ok, messages_failed, last_message_ts, delivered, last_msg>>
mqttConnVars == <<loop_started, stopping, client, network_loop, connect_loop,
                  attempts, wait, stop_returned>>
mqttVars == <<mqttCountVars, mqttConnVars>>
lifeVars == <<shutdown, risk_task>>
queryVars == <<history_out>>
mapperVars == <<raw_in, mapped>>
ruleVars == <<rule_payload, rule_alerts>>
frameVars == <<heap, ret>>
deltaVars == <<delta_row, delta_out>>
ackVars == <<ack_req, ack_clock, ack_count>>
pagerVars == <<pager>>
vars == <<safetyVars, dbVars, advisoryVars, ingestVars, queueVars, busVars,
          mqttVars, lifeVars, queryVars, mapperVars,
          ruleVars,
          frameVars,
          deltaVars,
          ackVars,
          pagerVars>>

\* Python's None, and the truth value of a dict or list (empty is false).
None == <<>>
Truthy(x) == DOMAIN x # {}

IngestIdle ==
    /\ dedup_cache = <<>>
    /\ INGEST_OK = 0
    /\ INGEST_FAIL = 0
    /\ DEDUP_DISCARDED = 0
    /\ handled = 0
    /\ last = [key |-> None, result |-> "none"]
    /\ carried = {}
    /\ persisted = {}

QueueIdle ==
    /\ loop_ready = <<>>
    /\ event_queue = <<>>
    /\ scheduled = <<>>
    /\ taken = <<>>

Sockets == 1 .. MaxSockets

DispatcherWaiting == [pc |-> "get", event |-> None, i |-> 0, cur |-> 0, living |-> <<>>]

BusIdle ==
    /\ active = <<>>
    /\ ws_state = [w \in Sockets |-> "new"]
    /\ dispatcher = DispatcherWaiting
    /\ received = [w \in Sockets |-> <<>>]
    /\ bcast = [event |-> None, start |-> {}, failed |-> {}]

\* MQTTIngestor.__init__: the counters.
MqttCountIdle ==
    /\ messages_ok = 0
    /\ messages_failed = 0
    /\ last_message_ts = None
    /\ delivered = 0
    /\ last_msg = None

ConnectLoopNone == [pc |-> "none", backoff |-> 0]

NoWait == [base |-> 0, jitter |-> 0]

\* MQTTIngestor.__init__: not started, not stopping, the client not connected.
MqttIdle ==
    /\ MqttCountIdle
    /\ loop_started = FALSE
    /\ stopping = FALSE
    /\ client = "disconnected"
    /\ network_loop = FALSE
    /\ connect_loop = ConnectLoopNone
    /\ attempts = 0
    /\ wait = NoWait
    /\ stop_returned = FALSE

\* startup has started the ingestor and its first connect has succeeded.
MqttRunning ==
    /\ MqttCountIdle
    /\ loop_started = TRUE
    /\ stopping = FALSE
    /\ client = "connected"
    /\ network_loop = TRUE
    /\ connect_loop = [pc |-> "done", backoff |-> 1]
    /\ attempts = 1
    /\ wait = NoWait
    /\ stop_returned = FALSE

\* startup has created the risk loop task; shutdown has not been called.
LifeIdle ==
    /\ shutdown = [pc |-> "idle", during |-> "none"]
    /\ risk_task = "running"

QueryIdle == history_out = None

MapperIdle ==
    /\ raw_in = <<>>
    /\ mapped = None

PagerIdle ==
    pager = [pc |-> "idle", device_id |-> "", limit |-> 0, before_id |-> None,
             got |-> <<>>, existed |-> {}]

AckIdle ==
    /\ ack_req = None
    /\ ack_clock = 0
    /\ ack_count = 0

DeltaIdle ==
    /\ delta_row = None
    /\ delta_out = [done |-> FALSE, delta |-> None]

FrameIdle ==
    /\ heap = None
    /\ ret = [called |-> FALSE]

RulesIdle ==
    /\ rule_payload = None
    /\ rule_alerts = [done |-> FALSE, alerts |-> <<>>]

\* ------------------------------------------- the supervisor as a function

NotCalled == [called |-> FALSE, raised |-> FALSE, safe |-> None, flags |-> <<>>]

Called(r) == [called |-> TRUE, raised |-> r.raised, safe |-> r.safe, flags |-> r.flags]

Mults == -MaxMult .. MaxMult

\* Half-ratings and the values one unit (1/Den kW) either side of a rating.
Around(limit) ==
    {k * (limit \div 2) : k \in Mults} \cup
    {s * (limit + d) : s \in {-1, 1}, d \in {-1, 0, 1}}

BatteryInputs == Around(KW(800))
GridInputs == {k * KW(2500) : k \in Mults} \cup {KW(5000) + d : d \in {-1, 0, 1}} \cup {-1}
EvInputs == {k * KW(225) : k \in Mults} \cup {KW(450) + d : d \in {-1, 0, 1}} \cup {-1}
CurtInputs == {k * Den : k \in -MaxMult .. 2 * MaxMult} \cup {2 * Den + d : d \in {-1, 0, 1}} \cup {-1}

SocInputs == {20 + d : d \in -SocDelta .. SocDelta} \cup
             {90 + d : d \in -SocDelta .. SocDelta}

FullSemantics ==
    {[battery_kw |-> b, grid_kw |-> g, ev_kw |-> e, curtailment |-> c] :
        b \in BatteryInputs, g \in GridInputs, e \in EvInputs, c \in CurtInputs}

\* A semantic action that lacks one of the fields apply_safety reads.
PartialSemantics ==
    {[k \in RequiredKeys \ {miss} |-> v * Den] :
        miss \in RequiredKeys, v \in {-6000, 0, 6000}}

HarnessIdle ==
    /\ semantic = None
    /\ soc_fraction = 0
    /\ first = NotCalled
    /\ second = NotCalled

DbEmpty ==
    /\ telemetry = <<>>
    /\ alerts = <<>>

AdvisoryIdle ==
    /\ rl_decision_logs = <<>>
    /\ soc_used = <<>>
    /\ advisory_out = None
    /\ advisory_calls = 0
    /\ advisory_last = None

InitSafety ==
    /\ semantic \in FullSemantics \cup PartialSemantics
    /\ soc_fraction \in SocInputs
    /\ first = NotCalled
    /\ second = NotCalled
    /\ DbEmpty
    /\ AdvisoryIdle
    /\ IngestIdle
    /\ QueueIdle
    /\ BusIdle
    /\ MqttIdle
    /\ LifeIdle
    /\ QueryIdle
    /\ MapperIdle
    /\ PagerIdle
    /\ AckIdle
    /\ DeltaIdle
    /\ FrameIdle
    /\ RulesIdle

Supervise ==
    /\ ~first.called
    /\ first' = Called(apply_safety(semantic, soc_fraction))
    /\ UNCHANGED <<semantic, soc_fraction, second, dbVars, advisoryVars,
                   ingestVars, queueVars, busVars, mqttVars, lifeVars, queryVars,
                   mapperVars, pagerVars, ackVars, deltaVars, frameVars, ruleVars>>

SuperviseAgain ==
    /\ first.called /\ ~first.raised /\ ~second.called
    /\ second' = Called(apply_safety(first.safe, soc_fraction))
    /\ UNCHANGED <<semantic, soc_fraction, first, dbVars, advisoryVars,
                   ingestVars, queueVars, busVars, mqttVars, lifeVars, queryVars,
                   mapperVars, pagerVars, ackVars, deltaVars, frameVars, ruleVars>>

NextSafety == Supervise \/ SuperviseAgain

SpecSafety == InitSafety /\ [][NextSafety]_vars

\* ------------------------------------------------ claims on apply_safety

Complete(sem) == RequiredKeys \subseteq DOMAIN sem

\* C1: for every semantic action carrying battery_kw, grid_kw, ev_kw and
\* curtailment and every soc_fraction, apply_safety returns an action with
\* -800 <= battery_kw <= 800, 0 <= grid_kw <= 5000, 0 <= ev_kw <= 450 and
\* 0 <= curtailment <= 1, with battery_kw >= 0 when soc_fraction < 0.20 and
\* battery_kw <= 0 when soc_fraction > 0.90.
InEnvelope(safe, soc) ==
    /\ -(800 * Den) <= safe["battery_kw"] /\ safe["battery_kw"] <= 800 * Den
    /\ 0 <= safe["grid_kw"] /\ safe["grid_kw"] <= 5000 * Den
    /\ 0 <= safe["ev_kw"] /\ safe["ev_kw"] <= 450 * Den
    /\ 0 <= safe["curtailment"] /\ safe["curtailment"] <= 2 * Den
    /\ soc < 20 => safe["battery_kw"] >= 0
    /\ soc > 90 => safe["battery_kw"] <= 0

C1_Envelope ==
    (first.called /\ Complete(semantic)) =>
        /\ ~first.raised
        /\ Complete(first.safe)
        /\ InEnvelope(first.safe, soc_fraction)

\* A discharge beyond the rating at low SoC with an import, an EV power and a
\* curtailment beyond their limits has been supervised.
C1_Witness ==
    /\ first.called /\ Complete(semantic)
    /\ soc_fraction < 20
    /\ semantic["battery_kw"] < -(800 * Den)
    /\ semantic["grid_kw"] > 5000 * Den
    /\ semantic["ev_kw"] > 450 * Den
    /\ semantic["curtailment"] > 2 * Den
    /\ first.safe["battery_kw"] = 0

\* C3: the supervisor is idempotent: supervising the action it returned, with
\* the same soc_fraction, returns that same action.
C3_Idempotent ==
    second.called => (~second.raised /\ second.safe = first.safe)

\* The second application has run on an action the first one had changed.
C3_Witness ==
    /\ second.called
    /\ first.safe # semantic
    /\ Len(first.flags) >= 3

\* C4: the supervisor never raises; a missing semantic field is clamped to
\* the nearest envelope value and a flag for it is recorded.
C4_NeverRaises ==
    first.called =>
        /\ ~first.raised
        /\ Complete(first.safe)
        /\ InEnvelope(first.safe, soc_fraction)
        /\ (~Complete(semantic) => Len(first.flags) > 0)

\* C5: the rules apply in the order low-SoC block, high-SoC block, battery
\* clamp, export block, import clamp, EV clamp, curtailment clamp, each seeing
\* the value left by the earlier ones, and the flag list holds the flag of
\* every rule that fired, in that order.
FlagOrder ==
    << "BLOCK_DISCHARGE_LOW_SOC", "BLOCK_CHARGE_HIGH_SOC",
       "CLAMP_BATTERY_CHARGE", "CLAMP_BATTERY_DISCHARGE",
       "NO_EXPORT_SUPPORTED", "CLAMP_GRID_IMPORT",
       "NEG_EV_POWER", "CLAMP_EV_CHARGE",
       "CURTAILMENT_NEG", "CURTAILMENT_GT1" >>

\* Whether the rule of flag f fires on the requested action: a battery clamp
\* sees the 0 a SoC block left, every other rule sees the requested value.
Fires(f, sem, soc) ==
    CASE f = "BLOCK_DISCHARGE_LOW_SOC" -> soc < 20 /\ sem["battery_kw"] < 0
      [] f = "BLOCK_CHARGE_HIGH_SOC" -> soc > 90 /\ sem["battery_kw"] > 0
      [] f = "CLAMP_BATTERY_CHARGE" -> sem["battery_kw"] > 800 * Den /\ ~(soc > 90)
      [] f = "CLAMP_BATTERY_DISCHARGE" -> sem["battery_kw"] < -(800 * Den) /\ ~(soc < 20)
      [] f = "NO_EXPORT_SUPPORTED" -> sem["grid_kw"] < 0
      [] f = "CLAMP_GRID_IMPORT" -> sem["grid_kw"] > 5000 * Den
      [] f = "NEG_EV_POWER" -> sem["ev_kw"] < 0
      [] f = "CLAMP_EV_CHARGE" -> sem["ev_kw"] > 450 * Den
      [] f = "CURTAILMENT_NEG" -> sem["curtailment"] < 0
      [] f = "CURTAILMENT_GT1" -> sem["curtailment"] > 2 * Den

C5_OrderedFlags ==
    (first.called /\ Complete(semantic)) =>
        /\ first.flags = SelectSeq(FlagOrder, LAMBDA f : Fires(f, semantic, soc_fraction))
        /\ (\E i \in 1 .. Len(first.flags) : first.flags[i] = "BLOCK_DISCHARGE_LOW_SOC")
              <=> (soc_fraction < 20 /\ semantic["battery_kw"] < 0)

\* An action violating the battery, grid, EV and curtailment limits at once
\* has been supervised and carries the four flags.
C5_Witness ==
    /\ first.called
    /\ first.flags = << "CLAMP_BATTERY_CHARGE", "CLAMP_GRID_IMPORT",
                        "CLAMP_EV_CHARGE", "CURTAILMENT_GT1" >>

\* --------------------------------------- GET /advisory/rl/safe (main.py)

Devices == {"d1", "d2"}

\* crud.latest_telemetry: the device's row of greatest ts (rows are kept in
\* ts order), None when the device has none.
latest_telemetry(device_id) ==
    LET idx == {i \in 1 .. Len(telemetry) : telemetry[i].device_id = device_id}
    IN  IF idx = {} THEN None
        ELSE telemetry[CHOOSE i \in idx : \A j \in idx : j <= i]

\* `float(latest.soc) if latest and latest.soc is not None else 50.0`
DEFAULT_SOC_PCT == 50
SocPct(latest) == IF latest = None THEN DEFAULT_SOC_PCT ELSE latest.soc

\* build_observation: the features that depend on the device's telemetry (the
\* SoC fraction in hundredths, the temperature); the others are clock
\* features and fixed placeholders.
DEFAULT_TEMPERATURE == 30
build_observation(device_id) ==
    LET latest == latest_telemetry(device_id)
    IN  [soc |-> IF latest = None THEN DEFAULT_SOC_PCT ELSE latest.soc,
         temperature |-> IF latest = None THEN DEFAULT_TEMPERATURE ELSE latest.temperature]

\* The fallback the endpoint returns when the policy round trip fails: a
\* response (status 200) with the one action fallback_hold.
FallbackOut ==
    [http |-> 200, model_version |-> "fallback", id |-> "fallback_hold",
     impact_kw |-> 0, confidence |-> 0, raw_vector |-> None,
     semantic_raw |-> None, semantic_safe |-> None, safety_flags |-> None]

\* `semantic_safe, flags = apply_safety(semantic_raw, soc_fraction)
\*      if semantic_raw else (None, [])`
SuperviseUnchecked(semantic_raw, soc) ==
    [raised |-> FALSE, safe |-> semantic_raw, flags |-> <<>>]

SuperviseRaw(semantic_raw, soc) ==
    IF Truthy(semantic_raw)
    THEN apply_safety(semantic_raw, soc)
    ELSE [raised |-> FALSE, safe |-> None, flags |-> <<>>]

\* crud.log_rl_decision: the row added; id is the autoincrement key.
log_rl_decision(device_id, obs, raw_vector, semantic_raw, semantic_safe, safety_flags, value_estimate) ==
    [id |-> Len(rl_decision_logs) + 1, device_id |-> device_id, obs |-> obs,
     raw_vector |-> raw_vector, semantic_raw |-> semantic_raw,
     semantic_safe |-> semantic_safe, safety_flags |-> safety_flags,
     value_estimate |-> value_estimate]

\* `id=base_action.lower()` and impact_map.get(base_action, 0.0).
ActionId(base_action) ==
    IF base_action = "CHARGE_BATTERY" THEN "charge_battery" ELSE "hold"

ImpactKw(base_action) ==
    IF base_action = "CHARGE_BATTERY" THEN 3
    ELSE IF base_action = "DISCHARGE_BATTERY_TO_LOAD" THEN -4
    ELSE 0

\* The policy round trip ends before a decision is made: client.post raises
\* ("timeout", "unreachable"), the status is not 200 ("status"), resp.json()
\* raises ("unparsable") or the body cannot be processed ("malformed": it is
\* not an object, or a field has the wrong type).
PolicyFailedOnlyUnreachable(rsp) == rsp.kind \in {"timeout", "unreachable"}

PolicyFailed(rsp) ==
    rsp.kind \in {"timeout", "unreachable", "status", "unparsable", "malformed"}

\* rl_advisory_safe(device_id).  rsp is what the policy round trip gives: one
\* of the failures of PolicyFailed, "ok" with its raw_vector and action, or
\* "bad_version": a body like an "ok" one whose model_version is not a
\* string, which the response model rejects after the decision is logged.
\* commit_ok is whether the commit of log_rl_decision succeeds, which it does
\* only while the log holds fewer than MaxLog entries.  (The copy of the
\* action the endpoint leaves in flow._RL_SEMANTIC for the topology view is
\* not modelled; nothing here reads it.)
rl_advisory_safe(device_id, rsp, commit_ok) ==
    /\ advisory_calls < MaxCalls
    /\ commit_ok => Len(rl_decision_logs) < MaxLog
    /\ advisory_calls' = advisory_calls + 1
    /\ LET latest == latest_telemetry(device_id)
           soc_pct == SocPct(latest)
           obs == build_observation(device_id)
           raw_vec == rsp.raw_vector
           semantic_raw == IF Truthy(raw_vec) THEN map_action(raw_vec) ELSE None
           soc == soc_pct      \* soc_pct / 100.0, held in hundredths
           sup == SuperviseRaw(semantic_raw, soc)
           semantic_safe == sup.safe
           flags == sup.flags
       IN  IF PolicyFailed(rsp) \/ sup.raised
           THEN /\ advisory_out' = FallbackOut
                /\ advisory_last' = [kind |-> rsp.kind, audit |-> "none"]
                /\ UNCHANGED <<rl_decision_logs, soc_used>>
           ELSE IF commit_ok
                   THEN /\ rl_decision_logs' = Append(rl_decision_logs,
                               log_rl_decision(device_id, obs, raw_vec, semantic_raw,
                                               semantic_safe, flags, rsp.value_estimate))
                        /\ soc_used' = Append(soc_used, soc)
                        /\ advisory_last' = [kind |-> rsp.kind, audit |-> "written"]
                        /\ advisory_out' =
                               IF rsp.kind = "bad_version"
                               THEN FallbackOut
                               ELSE [http |-> 200, model_version |-> "policy",
                                     id |-> ActionId(rsp.action),
                                     impact_kw |-> ImpactKw(rsp.action),
                                     confidence |-> rsp.confidence,
                                     raw_vector |-> raw_vec, semantic_raw |-> semantic_raw,
                                     semantic_safe |-> semantic_safe,
                                     safety_flags |-> IF Truthy(flags) THEN flags ELSE None]
                   ELSE /\ advisory_out' = FallbackOut
                        /\ advisory_last' = [kind |-> rsp.kind, audit |-> "failed"]
                        /\ UNCHANGED <<rl_decision_logs, soc_used>>
    /\ UNCHANGED <<safetyVars, mqttVars, lifeVars, queryVars, mapperVars, pagerVars, ackVars, deltaVars, frameVars, ruleVars, dbVars, ingestVars, queueVars, busVars>>

RawValues == -MaxRaw .. MaxRaw

Prefix(v, n) == SubSeq(v, 1, n)

\* The raw vectors the policy answers with: empty, short and full, with
\* components inside and outside [-1, 1]; the grid component has the sign
\* opposite to the batteries' (a charge with an export, a discharge with an
\* import).
PolicyVectors ==
    {Prefix(<<a, a, -a, a, a>>, n) : a \in RawValues, n \in {0, 2, 5}}

\* The confidence the policy reports, in percent.
PolicyConfidence == 80

PolicyResponses ==
    {[kind |-> k, raw_vector |-> <<>>, value_estimate |-> None, action |-> "HOLD",
      confidence |-> 0] :
        k \in {"timeout", "unreachable", "status", "unparsable", "malformed"}} \cup
    {[kind |-> "ok", raw_vector |-> v, value_estimate |-> None, action |-> a,
      confidence |-> PolicyConfidence] :
        v \in PolicyVectors, a \in {"HOLD", "CHARGE_BATTERY"}} \cup
    {[kind |-> "bad_version", raw_vector |-> <<>>, value_estimate |-> None,
      action |-> "HOLD", confidence |-> PolicyConfidence]}

TelemetryRow(device_id, ts, voltage, soc, temperature) ==
    [device_id |-> device_id, ts |-> ts, voltage |-> voltage, soc |-> soc,
     temperature |-> temperature]

InitAdvisory ==
    /\ HarnessIdle
    /\ \/ telemetry = <<>>
       \/ \E s \in SocInputs : telemetry = <<TelemetryRow("d1", 1, 230, s, 30)>>
    /\ alerts = <<>>
    /\ AdvisoryIdle
    /\ IngestIdle
    /\ QueueIdle
    /\ BusIdle
    /\ MqttIdle
    /\ LifeIdle
    /\ QueryIdle
    /\ MapperIdle
    /\ PagerIdle
    /\ AckIdle
    /\ DeltaIdle
    /\ FrameIdle
    /\ RulesIdle

NextAdvisory ==
    \E d \in {"d1"}, rsp \in PolicyResponses, commit_ok \in BOOLEAN :
        rl_advisory_safe(d, rsp, commit_ok)

SpecAdvisory == InitAdvisory /\ [][NextAdvisory]_vars

\* C2: after any sequence of GET /advisory/rl/safe calls, every entry of the
\* decision audit log whose semantic_safe is present satisfies the Safety
\* Supervisor envelope for the SoC used in that decision.
C2_LoggedSafeInEnvelope ==
    \A i \in 1 .. Len(rl_decision_logs) :
        LET e == rl_decision_logs[i]
        IN  e.semantic_safe # None =>
                /\ Complete(e.semantic_safe)
                /\ InEnvelope(e.semantic_safe, soc_used[i])

\* The log holds a decision whose raw action broke the envelope (a charge at
\* high SoC beyond the rating, with an export) beside one whose policy
\* returned an empty raw vector, and the last call fell back.
C2_Witness ==
    /\ \E i \in 1 .. Len(rl_decision_logs) :
          LET e == rl_decision_logs[i]
          IN  /\ e.semantic_safe # None
              /\ soc_used[i] > 90
              /\ e.semantic_raw["battery_kw"] > 800 * Den
              /\ e.semantic_raw["grid_kw"] < 0
              /\ e.semantic_safe["battery_kw"] = 0
    /\ \E i \in 1 .. Len(rl_decision_logs) : rl_decision_logs[i].semantic_safe = None
    /\ advisory_out.model_version = "fallback"

\* C16: a call of GET /advisory/rl/safe whose audit-log append failed does
\* not answer with a decision: the caller gets an error; the dispatcher and
\* the ingestion path are left as they were.
C16_AuditFailureSurfaced ==
    /\ [](advisory_last # None /\ advisory_last.audit = "failed" =>
             advisory_out.http # 200)
    /\ [][advisory_calls' # advisory_calls =>
             UNCHANGED <<dispatcher, ingestVars, queueVars, mqttVars>>]_vars

\* C17: whenever the policy call fails (timeout, connection error, a status
\* other than 200, an unparsable or malformed body) the endpoint answers, and
\* with the fallback: action fallback_hold with impact 0 and confidence 0, no
\* raw vector, no semantic action, model_version "fallback".
C17_PolicyFailureFallsBack ==
    (advisory_last # None /\ advisory_last.kind # "ok") =>
        /\ advisory_out.http = 200
        /\ advisory_out.model_version = "fallback"
        /\ advisory_out.id = "fallback_hold"
        /\ advisory_out.impact_kw = 0
        /\ advisory_out.confidence = 0
        /\ advisory_out.raw_vector = None
        /\ advisory_out.semantic_raw = None
        /\ advisory_out.semantic_safe = None

\* After a decision that was logged, the policy answers with a status other
\* than 200 and the endpoint falls back.
C17_Witness ==
    /\ advisory_calls = 2
    /\ Len(rl_decision_logs) = 1
    /\ rl_decision_logs[1].semantic_safe # None
    /\ advisory_last.kind = "status"
    /\ advisory_out.id = "fallback_hold"

\* An audit entry that says it records a fallback.
FallbackMarked(e) == "fallback" \in DOMAIN e /\ e.fallback

\* C18: each call of GET /advisory/rl/safe adds exactly one entry to the
\* audit log, and the entry of a call that answered with the fallback is
\* marked as a fallback, that of a real decision is not.
C18_FallbackLogged ==
    [][advisory_calls' # advisory_calls =>
          /\ Len(rl_decision_logs') = Len(rl_decision_logs) + 1
          /\ FallbackMarked(rl_decision_logs'[Len(rl_decision_logs')])
                <=> (advisory_out'.model_version = "fallback")]_vars

\* ------------------------------------------------------------- rules.py

RULES ==
    << [field |-> "soc", op |-> "lt", threshold |-> 20, severity |-> "WARN",
        type |-> "SOC_LOW", message |-> "State of Charge below 20%"],
       [field |-> "voltage", op |-> "gt", threshold |-> 250, severity |-> "HIGH",
        type |-> "VOLTAGE_HIGH", message |-> "Voltage exceeds 250V"],
       [field |-> "temperature", op |-> "gt", threshold |-> 60, severity |-> "HIGH",
        type |-> "TEMP_HIGH", message |-> "Temperature above 60C"] >>

\* Rule.check: whether the rule yields (value, threshold) for the payload.
RuleCheckNonStrict(rule, payload) ==
    /\ rule.field \in DOMAIN payload
    /\ \/ rule.op = "lt" /\ payload[rule.field] <= rule.threshold
       \/ rule.op = "gt" /\ payload[rule.field] >= rule.threshold

RuleCheck(rule, payload) ==
    /\ rule.field \in DOMAIN payload
    /\ \/ rule.op = "lt" /\ payload[rule.field] < rule.threshold
       \/ rule.op = "gt" /\ payload[rule.field] > rule.threshold

AlertPayload(rule, payload) ==
    [type_ |-> rule.type, severity |-> rule.severity, message |-> rule.message,
     value |-> payload[rule.field], threshold |-> rule.threshold]

RECURSIVE EvaluateFrom(_, _)
EvaluateFrom(n, payload) ==
    IF n > Len(RULES) THEN <<>>
    ELSE (IF RuleCheck(RULES[n], payload)
          THEN <<AlertPayload(RULES[n], payload)>> ELSE <<>>)
         \o EvaluateFrom(n + 1, payload)

\* rules.evaluate(payload): the alert payloads, in rule order.
evaluate(payload) == EvaluateFrom(1, payload)

\* ------------------------------------------------------------- crud.py

\* insert_telemetry: the row stored; ts is the column default (the clock at
\* the insert), here the number of the insert.
insert_telemetry(data) ==
    TelemetryRow(data.device_id, Len(telemetry) + 1, data.voltage, data.soc,
                 data.temperature)

\* create_alert: the row stored, n rows having been stored before it.
create_alert(n, device_id, ap) ==
    [id |-> n + 1, device_id |-> device_id, type |-> ap.type_,
     severity |-> ap.severity, message |-> ap.message, value |-> ap.value,
     threshold |-> ap.threshold, ack_ts |-> None]

\* ----------------------------------------- handle_ingested (main.py)

\* The code's _DEDUP_MAX.
DEDUP_MAX_CODE == 5000

\* A cache keyed on the device alone.
DedupKeyDeviceOnly(device_id, ts_iso) == <<device_id, <<"ts", "">>>>

dedup_key(device_id, ts_iso) == <<device_id, ts_iso>>

InCache(key) == \E i \in 1 .. Len(dedup_cache) : dedup_cache[i] = key

\* The number of keys the trim loop deletes from a cache of len keys when the
\* capacity is max: indices 0 .. max // 10 + 1, as far as there are keys.
TrimCount(len, max) == Min(len, max \div 10 + 2)

\* A trim that deletes the newest keys instead of the oldest.
TrimNewest(cache) ==
    IF Len(cache) >= DEDUP_MAX
    THEN SubSeq(cache, 1, Len(cache) - TrimCount(Len(cache), DEDUP_MAX))
    ELSE cache

\* `if len(_dedup_cache) >= _DEDUP_MAX: for i, k in enumerate(list(keys)):
\*      del _dedup_cache[k]; if i > _DEDUP_MAX // 10: break`
Trim(cache) ==
    IF Len(cache) >= DEDUP_MAX
    THEN SubSeq(cache, TrimCount(Len(cache), DEDUP_MAX) + 1, Len(cache))
    ELSE cache

\* TelemetryIn(**payload) validates: the four fields must be there.
ValidTelemetry(payload) ==
    {"device_id", "voltage", "soc", "temperature"} \subseteq DOMAIN payload

\* str(payload['ts']) of a timestamp string, and the isoformat of now() taken
\* in the n-th call, which no other message carries.
TsIso(payload, n) ==
    IF "ts" \in DOMAIN payload THEN <<"ts", payload.ts>> ELSE <<"now", ToString(n)>>

\* The (device_id, ts) pair a message carries, whatever the cache is keyed on.
PairOf(payload, n) == <<payload.device_id, TsIso(payload, n)>>

KeyOf(payload, n) == dedup_key(payload.device_id, TsIso(payload, n))

AlertRows(device_id, aps, n) ==
    [j \in 1 .. n |-> create_alert(Len(alerts) + j - 1, device_id, aps[j])]

\* handle_ingested(payload).  fail_at says where storage fails: 0 nowhere,
\* 1 in insert_telemetry, 1 + j in the j-th create_alert.  (Emails, the
\* latency histogram and the per-device gauge are not modelled.)
handle_ingested(payload, fail_at) ==
    /\ handled' = handled + 1
    /\ IF ~ValidTelemetry(payload)
       THEN \* TelemetryIn raises: the except branch
            /\ fail_at = 0
            /\ INGEST_FAIL' = INGEST_FAIL + 1
            /\ last' = [key |-> None, result |-> "invalid"]
            /\ UNCHANGED <<dedup_cache, INGEST_OK, DEDUP_DISCARDED, carried, persisted,
                           dbVars, loop_ready, scheduled>>
       ELSE LET key == KeyOf(payload, handled + 1)
                aps == evaluate(payload)
                pair == PairOf(payload, handled + 1)
            IN  /\ carried' = carried \cup {pair}
                /\ IF InCache(key)
                   THEN /\ fail_at = 0
                        /\ DEDUP_DISCARDED' = DEDUP_DISCARDED + 1
                        /\ last' = [key |-> pair, result |-> "duplicate"]
                        /\ UNCHANGED <<dedup_cache, INGEST_OK, INGEST_FAIL, persisted,
                                       dbVars, loop_ready, scheduled>>
                   ELSE /\ fail_at <= 1 + Len(aps)
                        /\ dedup_cache' = Append(Trim(dedup_cache), key)
                        /\ UNCHANGED DEDUP_DISCARDED
                        /\ IF fail_at = 1
                           THEN \* insert_telemetry raises
                                /\ INGEST_FAIL' = INGEST_FAIL + 1
                                /\ last' = [key |-> pair, result |-> "persist_failed"]
                                /\ UNCHANGED <<INGEST_OK, persisted, dbVars,
                                               loop_ready, scheduled>>
                           ELSE LET row == insert_telemetry(payload)
                                    made == IF fail_at = 0 THEN Len(aps) ELSE fail_at - 2
                                    rows == AlertRows(payload.device_id, aps, made)
                                    events ==
                                        <<[type |-> "telemetry", data |-> row]>> \o
                                        [j \in 1 .. made |-> [type |-> "alert", data |-> rows[j]]]
                                IN  /\ telemetry' = Append(telemetry, row)
                                    /\ persisted' = persisted \cup {key}
                                    /\ INGEST_OK' = INGEST_OK + 1
                                    /\ alerts' = alerts \o rows
                                    /\ IF fail_at = 0
                                       THEN /\ loop_ready' = loop_ready \o events
                                            /\ scheduled' = scheduled \o events
                                            /\ last' = [key |-> pair, result |-> "ok"]
                                            /\ UNCHANGED INGEST_FAIL
                                       ELSE \* a create_alert raises
                                            /\ INGEST_FAIL' = INGEST_FAIL + 1
                                            /\ last' = [key |-> pair, result |-> "alert_failed"]
                                            /\ UNCHANGED <<loop_ready, scheduled>>
    /\ UNCHANGED <<safetyVars, mqttConnVars, lifeVars, queryVars, mapperVars, pagerVars, ackVars, deltaVars, frameVars, ruleVars, advisoryVars,
                   event_queue, taken, busVars>>

\* ------------------------------------------- MQTTIngestor._on_message

\* dict.setdefault(k, v)
SetDefault(data, k, v) ==
    IF k \in DOMAIN data THEN data
    ELSE [x \in DOMAIN data \cup {k} |-> IF x = k THEN v ELSE data[x]]

\* A broker message: its topic split at '/', and its payload bytes described
\* by whether they are UTF-8 text, what JSON they hold ("object", "array" or
\* "invalid") and, for an object, the dict.
BrokerMessage(device_id, text, json, data) ==
    [topic |-> <<"devices", device_id, "telemetry">>,
     body |-> [text |-> text, json |-> json, data |-> data]]

\* msg.payload.decode(), json.loads(payload) and data.setdefault(..) all go
\* through: the bytes are text, the text is JSON, and the JSON is an object
\* (setdefault is called only for a topic of two parts or more).
Decodes(msg) ==
    /\ msg.body.text
    /\ msg.body.json # "invalid"
    /\ Len(msg.topic) >= 2 => msg.body.json = "object"

\* The dict handed to the callback.
Decoded(msg) ==
    IF Len(msg.topic) >= 2
    THEN SetDefault(msg.body.data, "device_id", msg.topic[2])
    ELSE msg.body.data

\* A callback that is called for every message, decodable or not.
on_message_always(msg, fail_at) ==
    /\ delivered' = delivered + 1
    /\ last_msg' = msg
    /\ handle_ingested(IF Decodes(msg) THEN Decoded(msg) ELSE <<>>, fail_at)
    /\ messages_ok' = messages_ok + 1
    /\ last_message_ts' = delivered + 1
    /\ UNCHANGED messages_failed

\* MQTTIngestor._on_message(client, userdata, msg) with handle_ingested as
\* on_telemetry; handle_ingested catches what its body raises.  time.time()
\* is the number of the arrival.
on_message(msg, fail_at) ==
    /\ delivered' = delivered + 1
    /\ last_msg' = msg
    /\ IF Decodes(msg)
       THEN /\ handle_ingested(Decoded(msg), fail_at)
            /\ messages_ok' = messages_ok + 1
            /\ last_message_ts' = delivered + 1
            /\ UNCHANGED messages_failed
       ELSE /\ fail_at = 0
            /\ messages_failed' = messages_failed + 1
            /\ UNCHANGED <<messages_ok, last_message_ts>>
            /\ UNCHANGED <<safetyVars, mqttConnVars, lifeVars, queryVars, mapperVars, pagerVars, ackVars, deltaVars, frameVars, ruleVars,
                           dbVars, advisoryVars, ingestVars, queueVars, busVars>>

\* The message the broker delivers for a payload that names its device.
Delivery(payload) == BrokerMessage(payload.device_id, TRUE, "object", payload)

\* ------------------------------------------- the ingestion thread alone

DeviceOf(n) == IF n % 2 = 1 THEN "d1" ELSE "d2"

\* The readings of the n-th distinct message: none, one or all of the rules
\* fire.
Readings(n) ==
    CASE n % 3 = 1 -> [voltage |-> 260, soc |-> 10, temperature |-> 70]
      [] n % 3 = 2 -> [voltage |-> 230, soc |-> 50, temperature |-> 30]
      [] OTHER     -> [voltage |-> 230, soc |-> 10, temperature |-> 30]

\* The n-th distinct stamped message a broker delivers.
Message(n) ==
    [device_id |-> DeviceOf(n), ts |-> ToString(n), voltage |-> Readings(n).voltage,
     soc |-> Readings(n).soc, temperature |-> Readings(n).temperature]

Unstamped == [device_id |-> "d1", voltage |-> 230, soc |-> 50, temperature |-> 30]

Invalid == [device_id |-> "d1", ts |-> "0", voltage |-> 230, temperature |-> 30]

Stamped == Cardinality({k \in carried : k[2][1] = "ts"})

MoreMessages == handled < DEDUP_MAX + MaxExtra

IngestFresh ==
    /\ MoreMessages
    /\ \E fail_at \in 0 .. 1 + Len(RULES) :
          /\ fail_at = 0 \/ INGEST_FAIL < MaxFail
          /\ on_message(Delivery(Message(Stamped + 1)), fail_at)

IngestReplay ==
    /\ MoreMessages
    /\ Stamped >= 1
    /\ DEDUP_DISCARDED < MaxDup
    /\ \E n \in {1, Stamped} : on_message(Delivery(Message(n)), 0)

IngestUnstamped ==
    /\ MoreMessages
    /\ handled < MaxUnstamped
    /\ on_message(Delivery(Unstamped), 0)

IngestInvalid ==
    /\ MoreMessages
    /\ INGEST_FAIL < MaxFail
    /\ on_message(Delivery(Invalid), 0)

InitDedup ==
    /\ HarnessIdle
    /\ DbEmpty
    /\ AdvisoryIdle
    /\ IngestIdle
    /\ QueueIdle
    /\ BusIdle
    /\ MqttRunning
    /\ LifeIdle
    /\ QueryIdle
    /\ MapperIdle
    /\ PagerIdle
    /\ AckIdle
    /\ DeltaIdle
    /\ FrameIdle
    /\ RulesIdle

NextDedup ==
    \/ IngestFresh
    \/ IngestReplay
    \/ IngestUnstamped
    \/ IngestInvalid

SpecDedup == InitDedup /\ [][NextDedup]_vars

\* ------------------------------------------- claims on the dedup cache

\* The message a step handles is well-formed: that step is a call of
\* handle_ingested that got past validation, and last'.key is its pair.
HandlesValid == handled' = handled + 1 /\ last'.key # None

\* C6: a message whose (device_id, ts) key is in the cache when it arrives is
\* discarded: no telemetry row, no alert and no event come of it, the cache
\* stays as it is, the discard counter goes up by one and the success and
\* failure counters stay; and a message is discarded only if an earlier
\* message carried the same (device_id, ts) pair.
C6_DuplicateDiscarded ==
    [][HandlesValid =>
         /\ (\E i \in 1 .. Len(dedup_cache) : dedup_cache[i] = last'.key) =>
               /\ telemetry' = telemetry
               /\ alerts' = alerts
               /\ loop_ready' = loop_ready
               /\ scheduled' = scheduled
               /\ dedup_cache' = dedup_cache
               /\ DEDUP_DISCARDED' = DEDUP_DISCARDED + 1
               /\ INGEST_FAIL' = INGEST_FAIL
               /\ INGEST_OK' = INGEST_OK
         /\ DEDUP_DISCARDED' # DEDUP_DISCARDED => last'.key \in carried]_vars

\* A replay was discarded after its first delivery had been stored, alerts
\* and events included.
C6_Witness ==
    /\ last.result = "duplicate"
    /\ DEDUP_DISCARDED = 1
    /\ INGEST_FAIL = 0
    /\ Len(telemetry) >= 1
    /\ Len(alerts) >= 1
    /\ Len(loop_ready) = Len(telemetry) + Len(alerts)

\* What a step that changes the cache does to it: it drops the n oldest keys
\* and records the new one behind the rest.
EvictsOldest(n) ==
    /\ n <= Len(dedup_cache)
    /\ dedup_cache' = Append(SubSeq(dedup_cache, n + 1, Len(dedup_cache)), last'.key)

\* C7: the cache never holds more than its capacity; an insert into a full
\* cache first evicts the oldest tenth of the capacity (up to two keys more),
\* oldest first, and then records the new key; an insert into a cache that is
\* not full evicts nothing.  At the capacity of the code, 5000, the full
\* insert evicts 502 keys.
C7_BoundedCache ==
    /\ [](Len(dedup_cache) <= DEDUP_MAX)
    /\ [][dedup_cache' # dedup_cache =>
             IF Len(dedup_cache) >= DEDUP_MAX
             THEN \E n \in DEDUP_MAX \div 10 .. DEDUP_MAX \div 10 + 2 : EvictsOldest(n)
             ELSE EvictsOldest(0)]_vars
    /\ [](TrimCount(DEDUP_MAX_CODE, DEDUP_MAX_CODE) = 502)

\* The cache has been full, an insert has evicted the oldest keys, and the
\* key of the first message is gone while that of a later one is still there.
C7_Witness ==
    /\ handled > DEDUP_MAX
    /\ Len(dedup_cache) = DEDUP_MAX - (DEDUP_MAX \div 10 + 2) + 1
    /\ ~InCache(PairOf(Message(1), 0))
    /\ InCache(PairOf(Message(DEDUP_MAX), 0))

\* C8: every key in the cache is the key of a stored telemetry record (a
\* call of handle_ingested runs to its end before the next one starts, so
\* between calls no record is in flight).
C8_CachedKeysPersisted ==
    \A i \in 1 .. Len(dedup_cache) : dedup_cache[i] \in persisted

\* --------------------------------------------- the event bus (main.py)

\* A queue that hands out the newest event first.
put_front(q, ev) == <<ev>> \o q

\* asyncio.Queue.put_nowait on the unbounded queue made at startup.
put_nowait(q, ev) == Append(q, ev)

Range(seq) == {seq[k] : k \in 1 .. Len(seq)}

\* list.remove: the list without the first occurrence of w.
Remove(seq, w) ==
    LET at == CHOOSE k \in 1 .. Len(seq) : seq[k] = w /\ \A m \in 1 .. k - 1 : seq[m] # w
    IN  SubSeq(seq, 1, at - 1) \o SubSeq(seq, at + 1, Len(seq))

\* The event loop runs the oldest callback scheduled by
\* call_soon_threadsafe: event_queue.put_nowait(ev).
LoopRunCallback ==
    /\ loop_ready # <<>>
    /\ event_queue' = put_nowait(event_queue, Head(loop_ready))
    /\ loop_ready' = Tail(loop_ready)
    /\ UNCHANGED <<safetyVars, mqttVars, lifeVars, queryVars, mapperVars, pagerVars, ackVars, deltaVars, frameVars, ruleVars, dbVars, advisoryVars, ingestVars, scheduled, taken, busVars>>

\* dispatcher: `event = await q.get()` returns and manager.broadcast(event)
\* runs up to its first `await ws.send_json(message)`; with no subscriber the
\* broadcast is over at once.
DispatcherGet ==
    /\ dispatcher.pc = "get"
    /\ event_queue # <<>>
    /\ LET event == Head(event_queue)
       IN  /\ event_queue' = Tail(event_queue)
           /\ taken' = Append(taken, event)
           /\ bcast' = [event |-> event, start |-> Range(active), failed |-> {}]
           /\ IF active = <<>>
              THEN /\ dispatcher' = DispatcherWaiting
                   /\ active' = <<>>
              ELSE /\ dispatcher' = [pc |-> "send", event |-> event, i |-> 1,
                                     cur |-> active[1], living |-> <<>>]
                   /\ UNCHANGED active
    /\ UNCHANGED <<safetyVars, mqttVars, lifeVars, queryVars, mapperVars, pagerVars, ackVars, deltaVars, frameVars, ruleVars, dbVars, advisoryVars, ingestVars, loop_ready, scheduled,
                   ws_state, received>>

\* broadcast: the awaited send_json to the current subscriber is over (it
\* raises unless the connection is open); the list iterator then reads the
\* next element of self.active as the list is now, or the loop ends and
\* `self.active = living` runs, and the dispatcher is back at q.get().
BroadcastSend ==
    /\ dispatcher.pc = "send"
    /\ LET w == dispatcher.cur
           ok == ws_state[w] = "open"
           living == IF ok THEN Append(dispatcher.living, w) ELSE dispatcher.living
       IN  /\ received' = IF ok THEN [received EXCEPT ![w] = Append(@, dispatcher.event)]
                          ELSE received
           /\ bcast' = IF ok THEN bcast ELSE [bcast EXCEPT !.failed = @ \cup {w}]
           /\ IF dispatcher.i < Len(active)
              THEN /\ dispatcher' = [dispatcher EXCEPT !.i = @ + 1,
                                                       !.cur = active[dispatcher.i + 1],
                                                       !.living = living]
                   /\ UNCHANGED active
              ELSE /\ dispatcher' = DispatcherWaiting
                   /\ active' = living
    /\ UNCHANGED <<safetyVars, mqttVars, lifeVars, queryVars, mapperVars, pagerVars, ackVars, deltaVars, frameVars, ruleVars, dbVars, advisoryVars, ingestVars, queueVars, ws_state>>

\* ws_telemetry: manager.connect(ws) accepts and registers the connection.
WsConnect(w) ==
    /\ ws_state[w] = "new"
    /\ ws_state' = [ws_state EXCEPT ![w] = "open"]
    /\ active' = Append(active, w)
    /\ UNCHANGED <<safetyVars, mqttVars, lifeVars, queryVars, mapperVars, pagerVars, ackVars, deltaVars, frameVars, ruleVars, dbVars, advisoryVars, ingestVars, queueVars,
                   dispatcher, received, bcast>>

\* The client goes away; its handler is still waiting in receive_text.
ClientClose(w) ==
    /\ ws_state[w] = "open"
    /\ ws_state' = [ws_state EXCEPT ![w] = "closing"]
    /\ UNCHANGED <<safetyVars, mqttVars, lifeVars, queryVars, mapperVars, pagerVars, ackVars, deltaVars, frameVars, ruleVars, dbVars, advisoryVars, ingestVars, queueVars,
                   active, dispatcher, received, bcast>>

\* ws_telemetry: receive_text raises WebSocketDisconnect and the handler
\* runs manager.disconnect(ws).
WsDisconnect(w) ==
    /\ ws_state[w] = "closing"
    /\ ws_state' = [ws_state EXCEPT ![w] = "closed"]
    /\ active' = IF w \in Range(active) THEN Remove(active, w) ELSE active
    /\ UNCHANGED <<safetyVars, mqttVars, lifeVars, queryVars, mapperVars, pagerVars, ackVars, deltaVars, frameVars, ruleVars, dbVars, advisoryVars, ingestVars, queueVars,
                   dispatcher, received, bcast>>

\* The broker thread delivers the next message while the loop runs.
IngestBus ==
    /\ handled < MaxBusMsgs
    /\ on_message(Delivery(Message(Stamped + 1)), 0)

InitBus ==
    /\ HarnessIdle
    /\ DbEmpty
    /\ AdvisoryIdle
    /\ IngestIdle
    /\ QueueIdle
    /\ BusIdle
    /\ MqttRunning
    /\ LifeIdle
    /\ QueryIdle
    /\ MapperIdle
    /\ PagerIdle
    /\ AckIdle
    /\ DeltaIdle
    /\ FrameIdle
    /\ RulesIdle

NextBus ==
    \/ IngestBus
    \/ LoopRunCallback
    \/ DispatcherGet
    \/ BroadcastSend
    \/ \E w \in Sockets : WsConnect(w)
    \/ \E w \in Sockets : ClientClose(w)
    \/ \E w \in Sockets : WsDisconnect(w)

SpecBus == InitBus /\ [][NextBus]_vars

\* ------------------------------------------- claims on the event bus

\* Nothing is lost or reordered between the producer and the dispatcher.
Conserved == taken \o event_queue \o loop_ready = scheduled

\* What w has received are events the dispatcher took, in the order it took
\* them.
InOrder(w) ==
    /\ \A a \in 1 .. Len(received[w]) : \E k \in 1 .. Len(taken) : taken[k] = received[w][a]
    /\ \A a, b \in 1 .. Len(received[w]) :
          a < b => \E k, m \in 1 .. Len(taken) :
                      k < m /\ taken[k] = received[w][a] /\ taken[m] = received[w][b]
    /\ \A k, m \in 1 .. Len(taken) : taken[k] = taken[m] => k = m

\* w has received every event taken since its first one.
Gapless(w) ==
    received[w] = SubSeq(taken, Len(taken) - Len(received[w]) + 1, Len(taken))

RuleIndex(type) == CHOOSE k \in 1 .. Len(RULES) : RULES[k].type = type

\* The events one call of handle_ingested schedules: the telemetry event of
\* the row it stored, then the events of the alerts it created, in rule
\* order.
BatchInOrder ==
    LET batch == SubSeq(scheduled', Len(scheduled) + 1, Len(scheduled'))
    IN  /\ batch[1] = [type |-> "telemetry", data |-> telemetry'[Len(telemetry')]]
        /\ Len(batch) = 1 + Len(alerts') - Len(alerts)
        /\ \A j \in 2 .. Len(batch) :
              /\ batch[j] = [type |-> "alert", data |-> alerts'[Len(alerts) + j - 1]]
              /\ j > 2 => RuleIndex(batch[j - 1].data.type) < RuleIndex(batch[j].data.type)

\* C9: events reach the dispatcher in the order the producer scheduled them
\* and none is lost; a delivery is always of the event taken last, so one
\* broadcast is over before the next starts; every subscriber has received
\* events in the order they were taken, and whenever the dispatcher waits on
\* the queue, a registered subscriber has received all events taken since
\* its first; the events of one message are its telemetry event, then its
\* alert events in rule order.
C9_FifoOrder ==
    /\ [](Conserved /\ \A w \in Sockets : InOrder(w))
    /\ [](dispatcher.pc = "get" => \A w \in Range(active) : Gapless(w))
    /\ [][\A w \in Sockets :
             received'[w] # received[w] =>
                 received'[w] = Append(received[w], taken[Len(taken)])]_vars
    /\ [][scheduled' # scheduled => BatchInOrder]_vars

\* A registered subscriber has received all the events of two messages: the
\* telemetry event and the three alerts of the first, in rule order, and the
\* telemetry event of the second.
C9_Witness ==
    \E w \in Range(active) :
        /\ received[w] = scheduled
        /\ Len(received[w]) = 5
        /\ received[w][1].type = "telemetry"
        /\ received[w][2].data.type = "SOC_LOW"
        /\ received[w][3].data.type = "VOLTAGE_HIGH"
        /\ received[w][4].data.type = "TEMP_HIGH"
        /\ received[w][5].type = "telemetry"

\* C10: when a broadcast in which a delivery failed is over, every other
\* subscriber that was registered when it started and whose connection is
\* still open has received the event and is still registered, and the
\* subscribers whose delivery failed are not registered.
C10_FailureIsolated ==
    (dispatcher.pc = "get" /\ bcast.failed # {}) =>
        /\ \A w \in bcast.start \ bcast.failed :
              ws_state[w] = "open" =>
                  /\ received[w] # <<>>
                  /\ received[w][Len(received[w])] = bcast.event
                  /\ w \in Range(active)
        /\ \A w \in bcast.failed : w \notin Range(active)

\* ------------------------------------- claims on the thread-to-loop handoff

\* A step of the broker's network thread: MQTTIngestor._on_message calls
\* handle_ingested synchronously there.  Every other step of the bus runs on
\* the event loop.
BrokerThreadStep == handled' # handled

\* C11: the two shared structures, the event queue and the dedup cache, are
\* mutated only by steps that run on the event loop, never by a step of the
\* broker thread.
C11_MutationOnLoop ==
    [][(event_queue' # event_queue \/ dedup_cache' # dedup_cache)
          => ~BrokerThreadStep]_vars

\* ------------------------------------------------- shutdown (main.py)

\* MQTTIngestor.stop(): the flag, client.disconnect(), and loop_stop() if
\* the network thread was started.
IngestorStop ==
    /\ stopping' = TRUE
    /\ client' = "disconnected"
    /\ network_loop' = IF loop_started THEN FALSE ELSE network_loop
    /\ stop_returned' = TRUE
    /\ UNCHANGED <<loop_started, connect_loop, attempts, wait>>

\* Whether `except Exception` catches exc: asyncio.CancelledError derives
\* from BaseException, not from Exception.
ExceptionCatches(exc) == exc # "CancelledError"

\* shutdown: `task.cancel()` on the dispatcher task, then `await task`.
ShutdownStart ==
    /\ shutdown.pc = "idle"
    /\ dispatcher.pc \in {"get", "send"}
    /\ dispatcher' = [dispatcher EXCEPT !.pc = "cancelling"]
    /\ shutdown' = [pc |-> "await_dispatcher", during |-> dispatcher.pc]
    /\ UNCHANGED <<safetyVars, mqttVars, queryVars, mapperVars, pagerVars, ackVars, deltaVars, frameVars, ruleVars, dbVars, advisoryVars,
                   ingestVars, queueVars, active, ws_state, received, bcast, risk_task>>

\* The loop throws CancelledError into the dispatcher where it awaits
\* (q.get() or send_json); neither `except Exception` catches it, the task
\* ends cancelled, and the rest of a broadcast in progress is not done.
DispatcherCancelled ==
    /\ dispatcher.pc = "cancelling"
    /\ dispatcher' = [dispatcher EXCEPT !.pc = "cancelled"]
    /\ UNCHANGED <<safetyVars, mqttVars, lifeVars, queryVars, mapperVars, pagerVars, ackVars, deltaVars, frameVars, ruleVars, dbVars,
                   advisoryVars, ingestVars, queueVars, active, ws_state, received, bcast>>

\* shutdown: `await task` raises CancelledError in the handler.  If the
\* `except Exception` around it catches that, the handler goes on to
\* ingestor.stop() and to cancel and await the risk task the same way;
\* otherwise the error leaves the handler there.
ShutdownResume ==
    /\ shutdown.pc = "await_dispatcher"
    /\ dispatcher.pc = "cancelled"
    /\ IF ExceptionCatches("CancelledError")
       THEN /\ IngestorStop
            /\ risk_task' = "cancelled"
            /\ shutdown' = [shutdown EXCEPT !.pc = "done"]
       ELSE /\ shutdown' = [shutdown EXCEPT !.pc = "raised"]
            /\ UNCHANGED <<mqttConnVars, risk_task>>
    /\ UNCHANGED <<safetyVars, mqttCountVars, queryVars, mapperVars, pagerVars, ackVars, deltaVars, frameVars, ruleVars, dbVars, advisoryVars,
                   ingestVars, queueVars, busVars>>

InitLife == InitBus

NextLife ==
    \/ NextBus
    \/ ShutdownStart
    \/ DispatcherCancelled
    \/ ShutdownResume

SpecLife == InitLife /\ [][NextLife]_vars

\* C12: the shutdown handler does not end with an error, and when it is done
\* the dispatcher task is cancelled, the ingestor is stopped and the risk
\* task is cancelled.
C12_CleanShutdown ==
    /\ shutdown.pc # "raised"
    /\ shutdown.pc = "done" =>
          /\ dispatcher.pc = "cancelled"
          /\ stopping
          /\ risk_task = "cancelled"

\* ------------------------------------------------ MQTTIngestor (mqtt.py)

\* The backoff cap, in seconds, and the largest jitter, in 1/100 s.
BACKOFF_CAP == 30
JITTER_MAX == 25

\* random.uniform(0, 0.25), in 1/100 s
Jitters == {0, 10, JITTER_MAX}

\* A backoff that doubles without a cap.
NextBackoffUncapped(backoff) == backoff * 2

\* `backoff = min(backoff * 2, 30)`
NextBackoff(backoff) == Min(backoff * 2, BACKOFF_CAP)

\* start(): nothing if already started; otherwise the mqtt-connect thread is
\* started (it sets backoff = 1.0 and comes to its loop test) and the
\* client's network thread is started.  start() waits for neither.
MqttStart ==
    /\ IF loop_started
       THEN UNCHANGED <<loop_started, connect_loop, network_loop>>
       ELSE /\ loop_started' = TRUE
            /\ connect_loop' = [pc |-> "check", backoff |-> 1]
            /\ network_loop' = TRUE
    /\ UNCHANGED <<stopping, client, attempts, wait, stop_returned>>
    /\ UNCHANGED <<safetyVars, mqttCountVars, lifeVars, queryVars, mapperVars, pagerVars, ackVars, deltaVars, frameVars, ruleVars, dbVars,
                   advisoryVars, ingestVars, queueVars, busVars>>

\* stop(), called from another thread than the connect loop's.
MqttStop ==
    /\ IngestorStop
    /\ UNCHANGED <<safetyVars, mqttCountVars, lifeVars, queryVars, mapperVars, pagerVars, ackVars, deltaVars, frameVars, ruleVars, dbVars,
                   advisoryVars, ingestVars, queueVars, busVars>>

\* _connect_loop: `while not self._stopping`
ConnectCheck ==
    /\ connect_loop.pc = "check"
    /\ connect_loop' = [connect_loop EXCEPT !.pc = IF stopping THEN "done" ELSE "connect"]
    /\ UNCHANGED <<loop_started, stopping, client, network_loop, attempts, wait,
                   stop_returned>>
    /\ UNCHANGED <<safetyVars, mqttCountVars, lifeVars, queryVars, mapperVars, pagerVars, ackVars, deltaVars, frameVars, ruleVars, dbVars,
                   advisoryVars, ingestVars, queueVars, busVars>>

\* _connect_loop: client.connect(..) returns 0 and the loop returns, or it
\* fails (another rc, or an exception) and the loop goes to sleep for
\* backoff + random.uniform(0, 0.25).
ConnectAttempt(ok, jitter) ==
    /\ connect_loop.pc = "connect"
    /\ ok \/ attempts < MaxAttempts
    /\ attempts' = attempts + 1
    /\ IF ok
       THEN /\ client' = "connected"
            /\ connect_loop' = [connect_loop EXCEPT !.pc = "done"]
            /\ UNCHANGED wait
       ELSE /\ connect_loop' = [connect_loop EXCEPT !.pc = "sleep"]
            /\ wait' = [base |-> connect_loop.backoff, jitter |-> jitter]
            /\ UNCHANGED client
    /\ UNCHANGED <<loop_started, stopping, network_loop, stop_returned>>
    /\ UNCHANGED <<safetyVars, mqttCountVars, lifeVars, queryVars, mapperVars, pagerVars, ackVars, deltaVars, frameVars, ruleVars, dbVars,
                   advisoryVars, ingestVars, queueVars, busVars>>

\* _connect_loop: the sleep is over; `backoff = min(backoff * 2, 30)`.
ConnectSleepDone ==
    /\ connect_loop.pc = "sleep"
    /\ connect_loop' = [pc |-> "check", backoff |-> NextBackoff(connect_loop.backoff)]
    /\ UNCHANGED <<loop_started, stopping, client, network_loop, attempts, wait,
                   stop_returned>>
    /\ UNCHANGED <<safetyVars, mqttCountVars, lifeVars, queryVars, mapperVars, pagerVars, ackVars, deltaVars, frameVars, ruleVars, dbVars,
                   advisoryVars, ingestVars, queueVars, busVars>>

\* The messages a broker delivers: telemetry of a device, a replay, a
\* payload without soc, one that names no device, bytes that are not UTF-8,
\* text that is not JSON, and JSON that is not an object.
BrokerMessages ==
    {Delivery(Message(Stamped + 1)), Delivery(Message(1)), Delivery(Invalid),
     BrokerMessage("d2", TRUE, "object", [ts |-> "0", voltage |-> 230, soc |-> 50,
                                            temperature |-> 30]),
     BrokerMessage("d1", FALSE, "invalid", <<>>),
     BrokerMessage("d1", TRUE, "invalid", <<>>),
     BrokerMessage("d1", TRUE, "array", <<>>)}

\* The client's network thread calls _on_message for a message received.
Deliver ==
    /\ client = "connected"
    /\ network_loop
    /\ delivered < MaxDeliveries
    /\ \E msg \in BrokerMessages, fail_at \in 0 .. 1 :
          /\ fail_at = 0 \/ INGEST_FAIL < MaxFail
          /\ on_message(msg, fail_at)

InitMqtt ==
    /\ HarnessIdle
    /\ DbEmpty
    /\ AdvisoryIdle
    /\ IngestIdle
    /\ QueueIdle
    /\ BusIdle
    /\ MqttIdle
    /\ LifeIdle
    /\ QueryIdle
    /\ MapperIdle
    /\ PagerIdle
    /\ AckIdle
    /\ DeltaIdle
    /\ FrameIdle
    /\ RulesIdle

NextMqtt ==
    \/ MqttStart
    \/ MqttStop
    \/ ConnectCheck
    \/ \E ok \in BOOLEAN, jitter \in Jitters : ConnectAttempt(ok, jitter)
    \/ ConnectSleepDone
    \/ Deliver

SpecMqtt == InitMqtt /\ [][NextMqtt]_vars

\* ------------------------------------------- claims on the MQTT ingestor

\* The payload of the message a step delivers is not the JSON text of an
\* object.
DecodeFails == ~last_msg'.body.text \/ last_msg'.body.json # "object"

\* C13: messages_ok + messages_failed is the number of messages received;
\* a message whose payload fails to decode adds one to messages_failed and
\* nothing else happens: the callback is not called, nothing is stored or
\* scheduled; any other message has the callback called once, adds one to
\* messages_ok and sets last_message_ts to the time of its arrival.
C13_OnMessageCounts ==
    /\ [](messages_ok + messages_failed = delivered)
    /\ [][delivered' # delivered =>
             /\ delivered' = delivered + 1
             /\ IF DecodeFails
                THEN /\ messages_failed' = messages_failed + 1
                     /\ messages_ok' = messages_ok
                     /\ last_message_ts' = last_message_ts
                     /\ handled' = handled
                     /\ UNCHANGED <<dedup_cache, INGEST_OK, INGEST_FAIL, DEDUP_DISCARDED,
                                    telemetry, alerts, loop_ready>>
                ELSE /\ messages_ok' = messages_ok + 1
                     /\ messages_failed' = messages_failed
                     /\ last_message_ts' = delivered'
                     /\ handled' = handled + 1]_vars

\* Three messages came: one was not JSON, one was stored, and one the
\* callback could not store.
C13_Witness ==
    /\ delivered = 3
    /\ messages_failed = 1
    /\ messages_ok = 2
    /\ handled = 2
    /\ INGEST_OK = 1
    /\ INGEST_FAIL = 1
    /\ last_message_ts = 3

RECURSIVE Pow2(_)
Pow2(n) == IF n <= 0 THEN 1 ELSE 2 * Pow2(n - 1)

\* C14: start() makes no connect attempt itself and leaves the connect loop
\* at its test; the sleep after the k-th failed attempt is min(2^(k-1), 30)
\* seconds plus a jitter of 0 to 0.25 s; the loop ends only when a connect
\* has succeeded or stop() has been called.
C14_Backoff ==
    /\ [](connect_loop.pc = "sleep" =>
             /\ wait.base = (IF Pow2(attempts - 1) < 30 THEN Pow2(attempts - 1) ELSE 30)
             /\ wait.jitter >= 0
             /\ wait.jitter <= 25)
    /\ [](connect_loop.pc = "done" => (client = "connected" \/ stopping))
    /\ [][(~loop_started /\ loop_started') =>
             /\ attempts' = attempts
             /\ client' = client
             /\ connect_loop'.pc = "check"]_vars

\* The seventh attempt in a row has failed and the loop sleeps for 30 s, the
\* ingestor not being stopped.
C14_Witness ==
    /\ connect_loop.pc = "sleep"
    /\ attempts = 7
    /\ wait.base = 30
    /\ connect_loop.backoff = 30
    /\ ~stopping

\* C15: once a call of stop() has returned, the connect loop makes no
\* connect attempt and the client is not connected.
C15_StopTerminates ==
    /\ [][stop_returned => attempts' = attempts]_vars
    /\ [](stop_returned => client # "connected")

\* ------------------------------------------------- GET /advisory/rl/history

\* A row of rl_decision_logs as log_rl_decision leaves it for a policy
\* answer without a raw vector.
DecisionRow(id, device_id) ==
    [id |-> id, device_id |-> device_id, obs |-> build_observation(device_id),
     raw_vector |-> <<>>, semantic_raw |-> None, semantic_safe |-> None,
     safety_flags |-> <<>>, value_estimate |-> None]

RECURSIVE Reverse(_)
Reverse(seq) ==
    IF seq = <<>> THEN <<>> ELSE Append(Reverse(Tail(seq)), Head(seq))

\* seq[:n] of Python.
PySlice(seq, n) ==
    IF n >= 0
    THEN SubSeq(seq, 1, Min(n, Len(seq)))
    ELSE SubSeq(seq, 1, Max(Len(seq) + n, 0))

\* The query with `id <= before_id` where crud.list_rl_decisions has
\* `id < before_id`.
list_rl_decisions_inclusive(device_id, limit, before_id) ==
    LET Wanted(r) == /\ r.device_id = device_id
                     /\ Truthy(before_id) => r.id <= before_id[1]
        q == Reverse(SelectSeq(rl_decision_logs, Wanted))
        rows == SubSeq(q, 1, Min(limit + 1, Len(q)))
        has_more == Len(rows) > limit
    IN  [rows |-> IF has_more THEN PySlice(rows, limit) ELSE rows,
         has_more |-> has_more]

\* crud.list_rl_decisions for limit >= -1 (LIMIT limit + 1 is then not
\* negative).  before_id is <<>> for None, <<n>> for n.
list_rl_decisions(device_id, limit, before_id) ==
    LET Wanted(r) == /\ r.device_id = device_id
                     /\ Truthy(before_id) => r.id < before_id[1]
        q == Reverse(SelectSeq(rl_decision_logs, Wanted))
        rows == SubSeq(q, 1, Min(limit + 1, Len(q)))
        has_more == Len(rows) > limit
    IN  [rows |-> IF has_more THEN PySlice(rows, limit) ELSE rows,
         has_more |-> has_more]

RECURSIVE MinId(_, _)
\* The loop of rl_history over the rows: `if min_id is None or r.id < min_id`.
MinId(rows, min_id) ==
    IF rows = <<>> THEN min_id
    ELSE MinId(Tail(rows),
               IF min_id = None \/ Head(rows).id < min_id[1]
               THEN <<Head(rows).id>> ELSE min_id)

\* The response of rl_history(device_id, limit, before_id), kept with its
\* request.
rl_history_response(device_id, limit, before_id) ==
    LET res == list_rl_decisions(device_id, limit, before_id)
        min_id == MinId(res.rows, None)
    IN  [request |-> [device_id |-> device_id, limit |-> limit,
                      before_id |-> before_id],
         device_id |-> device_id,
         decisions |-> [i \in 1 .. Len(res.rows) |->
                           [id |-> res.rows[i].id,
                            device_id |-> res.rows[i].device_id]],
         next_before_id |-> IF res.has_more /\ min_id # None
                            THEN min_id ELSE None,
         has_more |-> res.has_more]

\* GET /rl/history/{device_id}: a read of the log.
rl_history(device_id, limit, before_id) ==
    /\ history_out' = rl_history_response(device_id, limit, before_id)
    /\ UNCHANGED <<safetyVars, dbVars, advisoryVars, ingestVars, queueVars, busVars,
                   mqttVars, lifeVars, mapperVars, pagerVars, ackVars, deltaVars, frameVars, ruleVars>>

\* The limits the endpoint accepts (`Query(25, le=200)`: no lower bound) for
\* which the query is made.
Limits == -1 .. MaxLimit

InitHistory ==
    /\ HarnessIdle
    /\ telemetry = <<>>
    /\ alerts = <<>>
    /\ \E n \in 0 .. MaxHistory : \E owner \in [1 .. n -> Devices] :
          rl_decision_logs = [i \in 1 .. n |-> DecisionRow(i, owner[i])]
    /\ soc_used = [i \in 1 .. Len(rl_decision_logs) |-> DEFAULT_SOC_PCT]
    /\ advisory_out = None
    /\ advisory_calls = 0
    /\ advisory_last = None
    /\ IngestIdle
    /\ QueueIdle
    /\ BusIdle
    /\ MqttIdle
    /\ LifeIdle
    /\ QueryIdle
    /\ MapperIdle
    /\ PagerIdle
    /\ AckIdle
    /\ DeltaIdle
    /\ FrameIdle
    /\ RulesIdle

NextHistory ==
    \E d \in Devices, limit \in Limits :
        \/ rl_history(d, limit, None)
        \/ \E b \in 1 .. MaxHistory + 1 : rl_history(d, limit, <<b>>)

SpecHistory == InitHistory /\ [][NextHistory]_vars

\* The ids of the device's rows that the request asks for, and those of them
\* older than every id returned.
Eligible(out) ==
    {rl_decision_logs[i].id : i \in
        {j \in 1 .. Len(rl_decision_logs) :
            /\ rl_decision_logs[j].device_id = out.request.device_id
            /\ Truthy(out.request.before_id) =>
                  rl_decision_logs[j].id < out.request.before_id[1]}}

Returned(out) == {out.decisions[i].id : i \in 1 .. Len(out.decisions)}

\* C19: a history response holds only the device's decisions, by descending
\* id, all below before_id when given, the newest ones and at most limit of
\* them; has_more is true exactly when the device has older decisions than
\* those returned; next_before_id is the smallest id returned when has_more
\* is true and null otherwise.
C19_HistoryPage ==
    history_out # None =>
        LET out == history_out
            n == Len(out.decisions)
        IN  /\ Returned(out) \subseteq Eligible(out)
            /\ \A i \in 1 .. n - 1 : out.decisions[i].id > out.decisions[i + 1].id
            /\ n <= out.request.limit
            /\ \A x \in Returned(out) : \A y \in Eligible(out) \ Returned(out) : y < x
            /\ out.has_more <=> (Eligible(out) \ Returned(out) # {})
            /\ IF out.has_more
               THEN /\ out.next_before_id # None
                    /\ out.next_before_id[1] \in Returned(out)
                    /\ \A x \in Returned(out) : out.next_before_id[1] <= x
               ELSE out.next_before_id = None

\* ------------------------------------------------ map_action as a function

\* map_action applied to the raw vector given.
MapAction ==
    /\ mapped = None
    /\ mapped' = map_action(raw_in)
    /\ UNCHANGED <<raw_in, pagerVars, ackVars, deltaVars, frameVars, ruleVars, safetyVars, dbVars, advisoryVars, ingestVars, queueVars,
                   busVars, mqttVars, lifeVars, queryVars>>

\* Every raw vector of length 5 with components k/Den, inside and outside
\* [-1, 1].
InitMapper ==
    /\ HarnessIdle
    /\ telemetry = <<>>
    /\ alerts = <<>>
    /\ AdvisoryIdle
    /\ IngestIdle
    /\ QueueIdle
    /\ BusIdle
    /\ MqttIdle
    /\ LifeIdle
    /\ QueryIdle
    /\ raw_in \in [1 .. 5 -> RawValues]
    /\ mapped = None
    /\ PagerIdle
    /\ AckIdle
    /\ DeltaIdle
    /\ FrameIdle
    /\ RulesIdle

NextMapper == MapAction

SpecMapper == InitMapper /\ [][NextMapper]_vars

\* C20: for a raw vector v of length 5, map_action gives battery1_kw =
\* v[0]*600, battery2_kw = v[1]*200, battery_kw their sum, grid_kw = v[2]*5000
\* for v[2] >= 0 and -(|v[2]|*3000) for v[2] < 0, ev_kw = clamp(v[3], 0, 1)*450
\* and curtailment = clamp((v[4]+1)/2, 0, 1); so 0 <= ev_kw <= 450 and
\* 0 <= curtailment <= 1.  (Components are k/Den, powers in 1/Den kW,
\* curtailment in 1/(2*Den).)
C20_MapAction ==
    mapped # None =>
        LET v == raw_in
            Abs(x) == IF x < 0 THEN -x ELSE x
            Clamp(x, lo, hi) == IF x < lo THEN lo ELSE IF x > hi THEN hi ELSE x
        IN  /\ mapped.battery1_kw = v[1] * 600
            /\ mapped.battery2_kw = v[2] * 200
            /\ mapped.battery_kw = mapped.battery1_kw + mapped.battery2_kw
            /\ v[3] >= 0 => mapped.grid_kw = v[3] * 5000
            /\ v[3] < 0 => mapped.grid_kw = -(Abs(v[3]) * 3000)
            /\ mapped.ev_kw = Clamp(v[4], 0, Den) * 450
            /\ mapped.curtailment = Clamp(v[5] + Den, 0, 2 * Den)
            /\ mapped.ev_kw >= 0
            /\ mapped.ev_kw <= 450 * Den
            /\ mapped.curtailment >= 0
            /\ mapped.curtailment <= 2 * Den
            /\ DOMAIN mapped = {"battery_kw", "battery1_kw", "battery2_kw",
                                "grid_kw", "ev_kw", "curtailment"}

\* A discharge of battery 1 with an export, an EV component and a
\* curtailment component above 1: the EV power is 450 kW and the curtailment
\* 1.0.
C20_Witness ==
    /\ mapped # None
    /\ raw_in[1] < 0
    /\ raw_in[3] < 0
    /\ raw_in[4] > Den
    /\ raw_in[5] > Den
    /\ mapped.battery_kw < 0
    /\ mapped.grid_kw < 0
    /\ mapped.ev_kw = 450 * Den
    /\ mapped.curtailment = 2 * Den

\* ------------------------------------------ map_action on short vectors

\* Every raw vector of fewer than five components k/Den.
InitShort ==
    /\ HarnessIdle
    /\ telemetry = <<>>
    /\ alerts = <<>>
    /\ AdvisoryIdle
    /\ IngestIdle
    /\ QueueIdle
    /\ BusIdle
    /\ MqttIdle
    /\ LifeIdle
    /\ QueryIdle
    /\ \E n \in 0 .. 4 : raw_in \in [1 .. n -> RawValues]
    /\ mapped = None
    /\ PagerIdle
    /\ AckIdle
    /\ DeltaIdle
    /\ FrameIdle
    /\ RulesIdle

NextShort == MapAction

SpecShort == InitShort /\ [][NextShort]_vars

\* The vector right-padded with zeros to length 5.
ZeroPadded(v) == [i \in 1 .. 5 |-> IF i <= Len(v) THEN v[i] ELSE 0]

\* C21 (as stated): for a raw vector of length 0 to 4, map_action gives what
\* it gives for the vector right-padded with zeros to length 5.
C21_PaddedAll ==
    mapped # None => mapped = map_action(ZeroPadded(raw_in))

\* C21: for a raw vector of length 1 to 4, map_action gives what it gives
\* for the vector right-padded with zeros to length 5 (the empty vector is
\* the mapper's separate no-input case).
C21_PaddedNonEmpty ==
    (mapped # None /\ Len(raw_in) >= 1) => mapped = map_action(ZeroPadded(raw_in))

\* A vector of two components, a discharge of battery 1 and a charge of
\* battery 2, was mapped: no grid and EV power, curtailment one half.
C21_Witness ==
    /\ mapped # None
    /\ Len(raw_in) = 2
    /\ raw_in[1] < 0
    /\ raw_in[2] > 0
    /\ mapped.battery1_kw < 0
    /\ mapped.battery2_kw > 0
    /\ mapped.grid_kw = 0
    /\ mapped.ev_kw = 0
    /\ mapped.curtailment = Den

\* C22: the empty raw vector is mapped to the semantic action whose six
\* fields are all 0.
C22_EmptyAllZero ==
    (mapped # None /\ Len(raw_in) = 0) =>
        /\ DOMAIN mapped = {"battery_kw", "battery1_kw", "battery2_kw",
                            "grid_kw", "ev_kw", "curtailment"}
        /\ \A k \in DOMAIN mapped : mapped[k] = 0

\* The empty vector was mapped.
C22_Witness ==
    /\ raw_in = <<>>
    /\ mapped # None
    /\ mapped.curtailment = 0
    /\ mapped.battery_kw = 0

\* --------------------------------------------- rules.evaluate as a function

RuleFields == {RULES[i].field : i \in 1 .. Len(RULES)}

ThresholdOf(field) == (CHOOSE i \in 1 .. Len(RULES) : RULES[i].field = field)

\* The payloads given: the device id and any of the rules' fields, each
\* within MaxRuleDelta of its rule's threshold.
RulePayloads ==
    UNION {
        {[k \in present \cup {"device_id"} |->
             IF k = "device_id" THEN "d1"
             ELSE RULES[ThresholdOf(k)].threshold + off[k]] :
          off \in [present -> -MaxRuleDelta .. MaxRuleDelta]} :
        present \in SUBSET RuleFields}

\* list(rules.evaluate(rule_payload))
Evaluate ==
    /\ ~rule_alerts.done
    /\ rule_alerts' = [done |-> TRUE, alerts |-> evaluate(rule_payload)]
    /\ UNCHANGED <<rule_payload, safetyVars, dbVars, advisoryVars, ingestVars,
                   queueVars, busVars, mqttVars, lifeVars, queryVars, mapperVars, pagerVars, ackVars, deltaVars, frameVars>>

InitRules ==
    /\ HarnessIdle
    /\ telemetry = <<>>
    /\ alerts = <<>>
    /\ AdvisoryIdle
    /\ IngestIdle
    /\ QueueIdle
    /\ BusIdle
    /\ MqttIdle
    /\ LifeIdle
    /\ QueryIdle
    /\ MapperIdle
    /\ PagerIdle
    /\ AckIdle
    /\ DeltaIdle
    /\ FrameIdle
    /\ rule_payload \in RulePayloads
    /\ rule_alerts = [done |-> FALSE, alerts |-> <<>>]

NextRules == Evaluate

SpecRules == InitRules /\ [][NextRules]_vars

\* What the claim lets a payload yield for one rule.
Yield(p, field, fires, type, severity, threshold) ==
    IF field \in DOMAIN p /\ fires
    THEN <<[type_ |-> type, severity |-> severity, value |-> p[field],
            threshold |-> threshold]>>
    ELSE <<>>

\* C23: rules.evaluate yields, in this order, SOC_LOW (WARN) when soc is
\* present and below 20, VOLTAGE_HIGH (HIGH) when voltage is present and
\* above 250, TEMP_HIGH (HIGH) when temperature is present and above 60, each
\* once and with the value seen and the threshold, and nothing else: nothing
\* for a value equal to its threshold or for an absent field.
C23_Evaluate ==
    rule_alerts.done =>
        LET p == rule_payload
            got == rule_alerts.alerts
            Has(f) == f \in DOMAIN p
        IN  [i \in 1 .. Len(got) |->
                [type_ |-> got[i].type_, severity |-> got[i].severity,
                 value |-> got[i].value, threshold |-> got[i].threshold]]
            = Yield(p, "soc", Has("soc") /\ p["soc"] < 20, "SOC_LOW", "WARN", 20)
              \o Yield(p, "voltage", Has("voltage") /\ p["voltage"] > 250,
                       "VOLTAGE_HIGH", "HIGH", 250)
              \o Yield(p, "temperature", Has("temperature") /\ p["temperature"] > 60,
                       "TEMP_HIGH", "HIGH", 60)

\* A low state of charge, a voltage at its threshold and a high temperature
\* gave SOC_LOW, then TEMP_HIGH.
C23_Witness ==
    /\ rule_alerts.done
    /\ DOMAIN rule_payload = {"device_id", "soc", "voltage", "temperature"}
    /\ rule_payload["soc"] = 19
    /\ rule_payload["voltage"] = 250
    /\ rule_payload["temperature"] = 61
    /\ Len(rule_alerts.alerts) = 2
    /\ rule_alerts.alerts[1].type_ = "SOC_LOW"
    /\ rule_alerts.alerts[2].type_ = "TEMP_HIGH"

\* -------------------------------------------------------- POST /telemetry

\* post_telemetry(payload): the row is inserted and an alert is created for
\* each payload rules.evaluate yields; the handler returns the row.
post_telemetry(payload) ==
    /\ LET row == insert_telemetry(payload)
           aps == evaluate(payload)
       IN  /\ telemetry' = Append(telemetry, row)
           /\ alerts' = alerts \o AlertRows(payload.device_id, aps, Len(aps))
    /\ UNCHANGED <<safetyVars, advisoryVars, ingestVars, queueVars, busVars, mqttVars,
                   lifeVars, queryVars, mapperVars, pagerVars, ackVars, deltaVars, frameVars, ruleVars>>

\* The bodies posted: one that no rule fires on and one that all fire on.
PostBodies ==
    {Unstamped,
     [device_id |-> "d2", voltage |-> 260, soc |-> 10, temperature |-> 70]}

PostTelemetry ==
    /\ Len(telemetry) - INGEST_OK < MaxPosts
    /\ \E payload \in PostBodies : post_telemetry(payload)

InitProducers == InitBus

NextProducers == NextBus \/ PostTelemetry

SpecProducers == InitProducers /\ [][NextProducers]_vars

\* The number of events of the type handed to the bus with the row as data.
Enqueued(type, row) ==
    Cardinality({k \in 1 .. Len(scheduled) :
                    scheduled[k].type = type /\ scheduled[k].data = row})

\* C24: each telemetry row stored and each alert row created, by ingestion
\* or by POST /telemetry, has been handed to the event bus exactly once, as
\* an envelope of its type with the row as data.
C24_EveryProducerEnqueues ==
    /\ \A i \in 1 .. Len(telemetry) : Enqueued("telemetry", telemetry[i]) = 1
    /\ \A i \in 1 .. Len(alerts) : Enqueued("alert", alerts[i]) = 1

\* ------------------------------------ apply_safety and its caller's objects

\* `safe = dict(semantic)`: the name of the dict the writes of apply_safety
\* go to, the argument being the object named arg.
dict_alias(arg) == arg

dict_copy(arg) == "safe"

\* `flags: List[str] = []` with its appends: a list object.
PyList(items) == [py |-> "list", items |-> items]

\* apply_safety(semantic, soc_fraction) called with the object "arg": the
\* values are those of apply_safety above, written to the dict named by
\* dict_copy; a call that raises returns nothing.
ApplyOnObjects ==
    /\ ~ret.called
    /\ LET safe == dict_copy("arg")
           r == apply_safety(heap["arg"], soc_fraction)
       IN  /\ heap' = [x \in DOMAIN heap \cup {safe} |->
                          IF x = safe THEN r.safe ELSE heap[x]]
           /\ ret' = IF r.raised
                     THEN [called |-> TRUE, raised |-> TRUE]
                     ELSE [called |-> TRUE, raised |-> FALSE, safe |-> safe,
                           flags |-> PyList(r.flags)]
    /\ UNCHANGED <<safetyVars, dbVars, advisoryVars, ingestVars, queueVars, busVars,
                   mqttVars, lifeVars, queryVars, mapperVars, pagerVars, ackVars, deltaVars, ruleVars>>

\* The caller holds a semantic action, complete or not, as the object "arg";
\* semantic keeps the values it had before the call.
InitFrame ==
    /\ semantic \in FullSemantics \cup PartialSemantics
    /\ soc_fraction \in SocInputs
    /\ first = NotCalled
    /\ second = NotCalled
    /\ DbEmpty
    /\ AdvisoryIdle
    /\ IngestIdle
    /\ QueueIdle
    /\ BusIdle
    /\ MqttIdle
    /\ LifeIdle
    /\ QueryIdle
    /\ MapperIdle
    /\ PagerIdle
    /\ AckIdle
    /\ DeltaIdle
    /\ RulesIdle
    /\ heap = [x \in {"arg"} |-> semantic]
    /\ ret = [called |-> FALSE]

NextFrame == ApplyOnObjects

SpecFrame == InitFrame /\ [][NextFrame]_vars

\* C25: after apply_safety the object given still holds the values it had;
\* the action returned is another object; the flags returned are a list,
\* the empty list when the action given is complete and inside the
\* envelope, so that no rule fires.
C25_InputUntouched ==
    ret.called =>
        /\ heap["arg"] = semantic
        /\ ~ret.raised =>
              /\ ret.safe # "arg"
              /\ ret.safe \in DOMAIN heap
              /\ ret.flags.py = "list"
              /\ (Complete(semantic) /\ InEnvelope(semantic, soc_fraction)) =>
                    /\ ret.flags.items = <<>>
                    /\ heap[ret.safe] = semantic

\* A discharge at low SoC with an export was blocked in the copy and the
\* object given still holds the discharge and the export.
C25_Witness ==
    /\ ret.called
    /\ ~ret.raised
    /\ soc_fraction < 20
    /\ heap["arg"]["battery_kw"] < 0
    /\ heap["arg"]["grid_kw"] < 0
    /\ heap[ret.safe]["battery_kw"] = 0
    /\ heap[ret.safe]["grid_kw"] = 0
    /\ Len(ret.flags.items) >= 2

\* ------------------------------------------- rl_history: semantic_delta

\* A JSON value of a semantic record: a number, or something float() raises
\* on.
Number(n) == [num |-> TRUE, v |-> n]
NotANumber == [num |-> FALSE, v |-> 0]

\* `float(r.semantic_safe.get(k)) if k in r.semantic_safe else None`: what
\* safe_v is, or that float() raised.
SafeValueOrZero(safe, k) ==
    IF k \notin DOMAIN safe THEN [raised |-> FALSE, present |-> TRUE, v |-> 0]
    ELSE IF ~safe[k].num THEN [raised |-> TRUE, present |-> FALSE, v |-> 0]
    ELSE [raised |-> FALSE, present |-> TRUE, v |-> safe[k].v]

SafeValue(safe, k) ==
    IF k \notin DOMAIN safe THEN [raised |-> FALSE, present |-> FALSE, v |-> 0]
    ELSE IF ~safe[k].num THEN [raised |-> TRUE, present |-> FALSE, v |-> 0]
    ELSE [raised |-> FALSE, present |-> TRUE, v |-> safe[k].v]

\* The body of `for k, v in r.semantic_raw.items()`: whether the pass sets
\* semantic_delta[k]; an exception inside the try is passed over.
DeltaSets(raw, safe, k) ==
    /\ raw[k].num
    /\ ~SafeValue(safe, k).raised
    /\ SafeValue(safe, k).present

\* semantic_delta of a row: None unless both records are non-empty.
semantic_delta(raw, safe) ==
    IF Truthy(raw) /\ Truthy(safe)
    THEN [k \in {x \in DOMAIN raw : DeltaSets(raw, safe, x)} |->
             raw[k].v - SafeValue(safe, k).v]
    ELSE None

DeltaKeys == {"battery_kw", "grid_kw"}

DeltaValues == {Number(n) : n \in -MaxDeltaVal .. MaxDeltaVal} \cup {NotANumber}

\* The records with any of the keys.
DeltaRecords == UNION {[present -> DeltaValues] : present \in SUBSET DeltaKeys}

ComputeDelta ==
    /\ ~delta_out.done
    /\ delta_out' = [done |-> TRUE,
                     delta |-> semantic_delta(delta_row.semantic_raw,
                                              delta_row.semantic_safe)]
    /\ UNCHANGED <<delta_row, safetyVars, dbVars, advisoryVars, ingestVars, queueVars,
                   busVars, mqttVars, lifeVars, queryVars, mapperVars, pagerVars, ackVars, ruleVars,
                   frameVars>>

InitDelta ==
    /\ HarnessIdle
    /\ DbEmpty
    /\ AdvisoryIdle
    /\ IngestIdle
    /\ QueueIdle
    /\ BusIdle
    /\ MqttIdle
    /\ LifeIdle
    /\ QueryIdle
    /\ MapperIdle
    /\ PagerIdle
    /\ AckIdle
    /\ RulesIdle
    /\ FrameIdle
    /\ \E raw \in DeltaRecords, safe \in DeltaRecords :
          delta_row = [semantic_raw |-> raw, semantic_safe |-> safe]
    /\ delta_out = [done |-> FALSE, delta |-> None]

NextDelta == ComputeDelta

SpecDelta == InitDelta /\ [][NextDelta]_vars

\* C26: the semantic delta of a row has an entry for exactly the keys that
\* semantic_raw and semantic_safe both hold (with numbers), the entry being
\* raw[key] - safe[key]; a key of one side only has none; the computation
\* ends whatever the records hold.
C26_SemanticDelta ==
    delta_out.done =>
        LET raw == delta_row.semantic_raw
            safe == delta_row.semantic_safe
            both == {k \in DOMAIN raw \cap DOMAIN safe : raw[k].num /\ safe[k].num}
        IN  /\ DOMAIN delta_out.delta = both
            /\ \A k \in both : delta_out.delta[k] = raw[k].v - safe[k].v

\* battery_kw is in both records with different values, grid_kw in the raw
\* one only: the delta has battery_kw alone.
C26_Witness ==
    /\ delta_out.done
    /\ DOMAIN delta_row.semantic_raw = {"battery_kw", "grid_kw"}
    /\ DOMAIN delta_row.semantic_safe = {"battery_kw"}
    /\ delta_row.semantic_raw["battery_kw"] = Number(-1)
    /\ delta_row.semantic_safe["battery_kw"] = Number(0)
    /\ DOMAIN delta_out.delta = {"battery_kw"}
    /\ delta_out.delta["battery_kw"] = -1

\* ------------------------------------------------- POST /alerts/{id}/ack

Ackers == 1 .. MaxAckers

AckerIdle == [pc |-> "idle", alert_id |-> 0, seen |-> None, result |-> "none"]

\* The row of the alert with the id, None when there is none.
AlertById(alert_id) ==
    IF alert_id \in 1 .. Len(alerts) THEN alerts[alert_id] ELSE None

\* `alert.ack_ts is None` as the request saw the row when it loaded it.
SeenUnacked(req) == req.seen = None

\* acknowledge_alert, first part: a worker takes a request and its session
\* loads the alert; without a row the handler answers 404.
AckQuery(r, alert_id) ==
    /\ ack_req[r].pc \in {"idle", "done"}
    /\ ack_count < MaxAcks
    /\ ack_count' = ack_count + 1
    /\ LET alert == AlertById(alert_id)
       IN  ack_req' = [ack_req EXCEPT ![r] =
               IF alert = None
               THEN [pc |-> "done", alert_id |-> alert_id, seen |-> None,
                     result |-> "not_found"]
               ELSE [pc |-> "loaded", alert_id |-> alert_id, seen |-> alert.ack_ts,
                     result |-> "none"]]
    /\ UNCHANGED <<ack_clock, safetyVars, dbVars, advisoryVars, ingestVars, queueVars,
                   busVars, mqttVars, lifeVars, queryVars, mapperVars, pagerVars, ruleVars,
                   frameVars, deltaVars>>

\* acknowledge_alert, second part: `if alert.ack_ts is None:` on the loaded
\* object, then the UPDATE of ack_ts and the commit; the handler answers
\* with the row.
AckWrite(r) ==
    /\ ack_req[r].pc = "loaded"
    /\ ack_req' = [ack_req EXCEPT ![r].pc = "done", ![r].result = "ok"]
    /\ IF SeenUnacked(ack_req[r])
       THEN /\ ack_clock' = ack_clock + 1
            /\ alerts' = [alerts EXCEPT ![ack_req[r].alert_id].ack_ts = <<ack_clock + 1>>]
       ELSE UNCHANGED <<ack_clock, alerts>>
    /\ UNCHANGED <<ack_count, telemetry, safetyVars, advisoryVars, ingestVars, queueVars,
                   busVars, mqttVars, lifeVars, queryVars, mapperVars, pagerVars, ruleVars,
                   frameVars, deltaVars>>

\* The alerts of one reading that every rule fires on.
InitAck ==
    /\ HarnessIdle
    /\ telemetry = <<>>
    /\ alerts = [j \in 1 .. Len(RULES) |->
                    create_alert(j - 1, "d1", evaluate(Message(1))[j])]
    /\ AdvisoryIdle
    /\ IngestIdle
    /\ QueueIdle
    /\ BusIdle
    /\ MqttIdle
    /\ LifeIdle
    /\ QueryIdle
    /\ MapperIdle
    /\ PagerIdle
    /\ RulesIdle
    /\ FrameIdle
    /\ DeltaIdle
    /\ ack_req = [r \in Ackers |-> AckerIdle]
    /\ ack_clock = 0
    /\ ack_count = 0

NextAck ==
    \/ \E r \in Ackers, alert_id \in 1 .. Len(RULES) + 1 : AckQuery(r, alert_id)
    \/ \E r \in Ackers : AckWrite(r)

SpecAck == InitAck /\ [][NextAck]_vars

\* C27: an ack_ts once set stays as it is; nothing but ack_ts ever changes
\* in an alert, and no alert appears or goes; a request for an unknown id
\* is answered not-found.
C27_AckOnce ==
    /\ [][/\ Len(alerts') = Len(alerts)
          /\ \A i \in 1 .. Len(alerts) :
                /\ alerts'[i] = [alerts[i] EXCEPT !.ack_ts = alerts'[i].ack_ts]
                /\ alerts[i].ack_ts # None => alerts'[i].ack_ts = alerts[i].ack_ts]_vars
    /\ [](\A r \in DOMAIN ack_req :
             (ack_req[r].pc = "done" /\ ack_req[r].alert_id > Len(alerts))
                => ack_req[r].result = "not_found")

\* --------------------------- claims on connect, disconnect and broadcast

\* C28: when a broadcast is over, every subscriber that was registered when
\* it started, whose connection is still open and whose send did not fail
\* has received the event and is registered; and no step takes a subscriber
\* whose connection is open out of the registry.
C28_NoSubscriberSkipped ==
    /\ [](dispatcher.pc = "get" =>
             \A w \in bcast.start \ bcast.failed :
                 ws_state[w] = "open" =>
                     /\ w \in Range(active)
                     /\ received[w] # <<>>
                     /\ received[w][Len(received[w])] = bcast.event)
    /\ [][\A w \in Range(active) :
             ws_state'[w] = "open" => w \in Range(active')]_vars

\* ------------------------------------ claims on the batteries' aggregate

\* C29: in every logged decision the safe action (apply_safety of a
\* map_action result at the decision's SoC) has battery_kw =
\* battery1_kw + battery2_kw.
C29_AggregateConsistent ==
    \A i \in 1 .. Len(rl_decision_logs) :
        LET safe == rl_decision_logs[i].semantic_safe
        IN  safe # None =>
                safe["battery_kw"] = safe["battery1_kw"] + safe["battery2_kw"]

\* ------------------------------------------------- following the cursor

\* A client of GET /rl/history/{device_id}: it asks with a limit >= 1 and no
\* before_id, then passes each next_before_id back as before_id until
\* has_more is false.  pager.got are the ids it received, in the order of
\* receipt; pager.existed are the ids of the device's rows at its first
\* query.
PagerIds(out) == [i \in 1 .. Len(out.decisions) |-> out.decisions[i].id]

DeviceIds(device_id) ==
    {rl_decision_logs[i].id : i \in {j \in 1 .. Len(rl_decision_logs) :
                                        rl_decision_logs[j].device_id = device_id}}

PagerFirst(device_id, limit) ==
    /\ pager.pc = "idle"
    /\ LET out == rl_history_response(device_id, limit, None)
       IN  /\ history_out' = out
           /\ pager' = [pc |-> IF out.has_more THEN "paging" ELSE "done",
                        device_id |-> device_id, limit |-> limit,
                        before_id |-> out.next_before_id,
                        got |-> PagerIds(out),
                        existed |-> DeviceIds(device_id)]
    /\ UNCHANGED <<safetyVars, dbVars, advisoryVars, ingestVars, queueVars, busVars,
                   mqttVars, lifeVars, mapperVars, ackVars, deltaVars, frameVars, ruleVars>>

PagerNext ==
    /\ pager.pc = "paging"
    /\ LET out == rl_history_response(pager.device_id, pager.limit, pager.before_id)
       IN  /\ history_out' = out
           /\ pager' = [pager EXCEPT !.pc = IF out.has_more THEN "paging" ELSE "done",
                                     !.before_id = out.next_before_id,
                                     !.got = pager.got \o PagerIds(out)]
    /\ UNCHANGED <<safetyVars, dbVars, advisoryVars, ingestVars, queueVars, busVars,
                   mqttVars, lifeVars, mapperVars, ackVars, deltaVars, frameVars, ruleVars>>

\* A decision is appended by another request: crud.log_rl_decision with the
\* fields of a policy answer without a raw vector.
AppendDecision(device_id) ==
    /\ Len(rl_decision_logs) < MaxHistory + MaxAppends
    /\ rl_decision_logs' = Append(rl_decision_logs,
            log_rl_decision(device_id, build_observation(device_id), <<>>, None,
                            None, <<>>, None))
    /\ soc_used' = Append(soc_used, DEFAULT_SOC_PCT)
    /\ UNCHANGED <<advisory_out, advisory_calls, advisory_last>>
    /\ UNCHANGED <<safetyVars, dbVars, ingestVars, queueVars, busVars, mqttVars, lifeVars,
                   queryVars, mapperVars, pagerVars, ackVars, deltaVars, frameVars, ruleVars>>

InitPager == InitHistory

NextPager ==
    \/ \E d \in Devices, limit \in 1 .. MaxLimit : PagerFirst(d, limit)
    \/ PagerNext
    \/ \E d \in Devices : AppendDecision(d)

SpecPager == InitPager /\ [][NextPager]_vars

StrictlyDescending(ids) ==
    \A i \in 1 .. Len(ids) - 1 : ids[i] > ids[i + 1]

=============================================================================
